---- MODULE Spec2Model ----
(***************************************************************************)
(* screen2cam: the capture -> convert -> deliver -> pace pipeline of       *)
(* src/src/main.c over its capture and sink back ends, and the             *)
(* shared-memory frame protocol of src/extension/shm_protocol.h.           *)
(*                                                                         *)
(* Spec      main() from option parsing to process exit (one action per    *)
(*           statement group of main.c), with the signal handler.          *)
(* FairSpec  Spec with weak fairness on the steps of main(): every call    *)
(*           main makes returns.                                           *)
(* ShmSpec   one producer and the consumers of the shared-memory region.   *)
(* VcamSpec, VcamFairSpec   vcam_write, and its calls under fairness.       *)
(* ConvSpec  bgra_to_yuv420p.  GpuSpec  capture_grab of capture_win.c.      *)
(* WinInitSpec  capture_init and capture_free of capture_win.c.            *)
(* X11Spec   capture_init, capture_grab and capture_free of capture.c.     *)
(***************************************************************************)
EXTENDS Integers, Sequences, FiniteSets, TLC

VARIABLES
    platform,   \* build target: "linux" (capture.c, vcam.c) or "win" (capture_win.c, vcam_win.c)
    argv,       \* options getopt_long has not returned yet
    pc,         \* position of main()
    device,     \* main.c: const char *device
    fps,        \* main.c: int fps
    running,    \* main.c: static volatile sig_atomic_t running
    handlers,   \* TRUE once signal(SIGINT/SIGTERM, on_signal) is installed
    cap,        \* capture session: "none", "open", "freed"
    use_shm,    \* capture.c: ctx->use_shm (X11 fast path)
    capbuf,     \* content of the buffer capture_grab hands out (0: never written)
    w, h,       \* main.c: int w, h
    cam,        \* sink: "none", "open", "closed"
    yuv_buf,    \* main.c: uint8_t *yuv_buf: "none", "alloc", "freed"
    yuv_size,   \* main.c: size_t yuv_size
    yuv,        \* content of yuv_buf: the screen it was converted from (0: none)
    sink,       \* content of the last frame the sink accepted (0: none)
    bgra,       \* main.c: const uint8_t *bgra: "NULL" or "buf"
    grabRes,    \* outcome of the last capture_grab call
    wrRes,      \* return value of the last vcam_write call (1: none yet)
    frame_ns,   \* main.c: long frame_ns
    frames,     \* main.c: unsigned long frames
    now,        \* CLOCK_MONOTONIC, as clock_gettime reports it
    iterStart,  \* clock value when the current iteration began
    t0, t1,     \* main.c: struct timespec t0, t1
    elapsed,    \* main.c: long elapsed
    remaining,  \* main.c: long remaining
    lastSleep,  \* the last sleep call main made and its argument
    iters,      \* iterations begun
    sigFrames,  \* value of frames when on_signal first cleared running (-1: no signal yet)
    summary,    \* frame total printed by the shutdown code (-1: not printed)
    released,   \* resources released so far, in order
    exitCode,   \* return value of main (-1: still running)
    exitPath,   \* the return statement main left by ("none": still running)
    shm,        \* shared-memory region, one cell per 32-bit word
    prod,       \* shared-memory producer
    cons,       \* shared-memory consumers
    delivered,  \* shared-memory deliveries completed
    frame_size, \* vcam.c: ctx->frame_size
    wlen,       \* vcam_write: size_t len
    written,    \* vcam_write: size_t written
    wn,         \* vcam_write: n, the result of the last write call
    werrno,     \* errno as the last failed write call left it
    vcamPc,     \* position inside vcam_write
    vcamRet,    \* return value of the last vcam_write call (1: none yet)
    stream,     \* offsets of the frame bytes the device has accepted, in order
    callStart,  \* length of stream when the current vcam_write call began
    lastWrite,  \* offset and count of the last write call
    nwrites,    \* write calls made
    ncalls,     \* vcam_write calls made
    src,        \* convert.c: the BGRA input, one [b, g, r, a] per pixel
    dst,        \* convert.c: the output buffer (-1: byte not written)
    wcount,     \* how often the converter wrote each output index
    convW,      \* convert.c: int width
    convH,      \* convert.c: int height
    convI,      \* convert.c: int i
    convJ,      \* convert.c: int j
    convPc,     \* position inside bgra_to_yuv420p
    gpuPc,      \* position inside capture_grab of capture_win.c
    hr,         \* capture_win.c: the HRESULT last tested
    held,       \* TRUE while an acquired frame has not been released
    mapped,     \* TRUE while the staging texture is mapped
    buffer,     \* capture_win.c: content of ctx->buffer (0: never written)
    desktop,    \* the picture on the desktop
    gpuRet,     \* what the last capture_grab call returned
    prevRet,    \* content the capture_grab call before handed out (-1: none)
    acquires,   \* frames acquired in the current capture_grab call
    releases,   \* ReleaseFrame calls in the current capture_grab call
    ngrabs,     \* capture_grab calls made
    initPc,     \* position inside capture_init / capture_free of capture_win.c
    initHr,     \* capture_win.c: HRESULT hr of capture_init
    comInits,   \* CoInitializeEx calls of the thread that ask for CoUninitialize
    ctx,        \* capture_win.c: the pointer fields of struct capture_ctx (0: NULL)
    acquired,   \* the handles capture_init obtained, in order
    freed,      \* the handles released, in order
    initRet,    \* what capture_init returned: "none", "NULL", "ctx"
    freeI,      \* the release of capture_free that comes next
    freeFrom,   \* who called capture_free: "init" (the fail label) or "main"
    x11Pc,      \* position inside capture_init of capture.c
    xctx,       \* capture.c: fields of struct capture_ctx
    xheld,      \* X11 and System V resources the session holds
    xRet,       \* what the X11 capture_init returned: "none", "NULL", "ctx"
    xGrabRet,   \* what the last X11 capture_grab returned
    xdata,      \* content of the buffer img->data points at (0: none)
    xgrabs      \* X11 capture_grab calls made

optVars == <<argv, device, fps>>
sigVars == <<running, sigFrames>>
capVars == <<cap, use_shm, capbuf, w, h>>
sinkVars == <<cam, sink>>
bufVars == <<yuv_buf, yuv_size, yuv>>
loopVars == <<bgra, grabRes, wrRes, frame_ns, frames, iters>>
timeVars == <<now, iterStart, t0, t1, elapsed, remaining, lastSleep>>
exitVars == <<summary, released, exitCode, exitPath>>

mainVars == <<platform, pc, handlers, optVars, sigVars, capVars, sinkVars,
              bufVars, loopVars, timeVars, exitVars>>

shmVars == <<shm, prod, cons, delivered>>

vcamVars == <<frame_size, wlen, written, wn, werrno, vcamPc, vcamRet, stream,
              callStart, lastWrite, nwrites, ncalls>>

convVars == <<src, dst, wcount, convW, convH, convI, convJ, convPc>>

gpuVars == <<gpuPc, hr, held, mapped, buffer, desktop, gpuRet, prevRet,
             acquires, releases, ngrabs>>

winInitVars == <<initPc, initHr, comInits, ctx, acquired, freed, initRet,
                 freeI, freeFrom>>

x11Vars == <<x11Pc, xctx, xheld, xRet, xGrabRet, xdata, xgrabs>>

setupVars == <<winInitVars, x11Vars>>

unitVars == <<vcamVars, convVars, gpuVars, setupVars>>

vars == <<mainVars, shmVars, unitVars>>

----------------------------------------------------------------------------
(* Bounds of the model *)

MaxArgs == 2
MaxIters == 2
MaxDeliveries == 2
MaxWrites == 3
MaxCalls == 2
MaxGrabs == 2
ShmWidth == 2

(* Program constants *)

NsPerSec == 1000000000
DefaultFps == 15
MinFps == 1
MaxFps == 60
RetryUsec == 100000
AcquireTimeoutMs == 100

Platforms == {"linux", "win"}

Max(a, b) == IF a >= b THEN a ELSE b

----------------------------------------------------------------------------
(* Command line *)

Digits == <<"0", "1", "2", "3", "4", "5", "6", "7", "8", "9">>

IsDigit(c) == \E d \in 1..10 : Digits[d] = c

DigitVal(c) == (CHOOSE d \in 1..10 : Digits[d] = c) - 1

RECURSIVE AtoiDigits(_, _)
AtoiDigits(s, acc) ==
    IF s = <<>> \/ ~IsDigit(Head(s)) THEN acc
    ELSE AtoiDigits(Tail(s), acc * 10 + DigitVal(Head(s)))

\* atoi(): optional sign, then decimal digits up to the first other character
Atoi(s) ==
    IF s = <<>> THEN 0
    ELSE IF Head(s) = "-" THEN 0 - AtoiDigits(Tail(s), 0)
    ELSE AtoiDigits(s, 0)

FpsArgs == { <<"0">>, <<"1">>, <<"6", "0">>, <<"6", "1">>, <<"-", "1">>,
             <<"x">>, <<"6", "0", "x">> }

\* a path is kept as a one-element sequence; "-" is the stream marker
DeviceArgs == { <<"-">> }

Options == [opt : {"d"}, arg : DeviceArgs]
           \cup [opt : {"f"}, arg : FpsArgs]
           \cup [opt : {"h", "?"}, arg : {<<>>}]

ArgvSet == UNION { [1..n -> Options] : n \in 0..MaxArgs }

DefaultDevice == <<"/dev/video10">>

\* dimensions the display can report
Dims == { <<2, 2>>, <<3, 2>> }

\* the pictures the display can show, told apart by a number
Screens == {1, 2}

----------------------------------------------------------------------------
(* Time *)

Ts(s, n) == [tv_sec |-> s, tv_nsec |-> n]

\* the value CLOCK_MONOTONIC holds when main starts: 1 ns short of a full
\* second, so that iterations run across a change of tv_sec
StartClocks == {Ts(0, NsPerSec - 1)}

\* the clock a + d, for a duration d
TsAdd(a, d) ==
    LET n == a.tv_nsec + d.tv_nsec
    IN  Ts(a.tv_sec + d.tv_sec + n \div NsPerSec, n % NsPerSec)

\* the time from a to b, for a clock b not before a
TsSub(b, a) ==
    LET n == b.tv_nsec - a.tv_nsec
    IN  IF n < 0 THEN Ts(b.tv_sec - a.tv_sec - 1, n + NsPerSec)
        ELSE Ts(b.tv_sec - a.tv_sec, n)

\* a whole number of milliseconds as a duration
Millis(ms) == Ts(ms \div 1000, (ms % 1000) * 1000000)

ClockGettime == now

\* time a capture_grab call may take
GrabTimes == {Millis(0), Millis(AcquireTimeoutMs)}

\* time a blocking vcam_write call may take: none, or longer than any frame
\* interval.  The 64-bit long of the linux build holds every duration; its
\* iterations are kept under 2^31 ns, the largest number the model checker
\* computes with.
WriteTimes ==
    IF platform = "win" THEN {Millis(0), Millis(3000)}
    ELSE {Millis(0), Millis(1000)}

\* the time usleep(usec) takes: platform.h turns it into Sleep(usec / 1000)
Usleep(usec) ==
    IF platform = "win"
    THEN Millis(IF usec \div 1000 = 0 /\ usec > 0 THEN 1 ELSE usec \div 1000)
    ELSE Ts(0, usec * 1000)

\* the time nanosleep(&ts, NULL) takes.  platform.h turns it into
\* Sleep(tv_sec * 1000 + tv_nsec / 1000000), at least 1 ms for a positive
\* tv_nsec; the nanosleep of the linux build fails with EINVAL, at once,
\* on a tv_nsec outside 0 .. 999999999.
Nanosleep(ts) ==
    IF platform = "win"
    THEN LET ms == ts.tv_sec * 1000 + ts.tv_nsec \div 1000000
         IN  Millis(IF ms = 0 /\ ts.tv_nsec > 0 THEN 1 ELSE ms)
    ELSE IF ts.tv_nsec < 0 \/ ts.tv_nsec >= NsPerSec THEN Ts(0, 0)
         ELSE ts

----------------------------------------------------------------------------
(* main(): start-up, src/src/main.c:39-102 *)

NoTime == Ts(0, 0)

NoSleep == [call |-> "none", usec |-> 0, tv_sec |-> 0, tv_nsec |-> 0]

MainInit ==
    /\ platform \in Platforms
    /\ argv \in ArgvSet
    /\ pc = "getopt"
    /\ device = DefaultDevice
    /\ fps = DefaultFps
    /\ running = 1
    /\ sigFrames = -1
    /\ handlers = FALSE
    /\ cap = "none" /\ use_shm = 0 /\ capbuf = 0 /\ w = 0 /\ h = 0
    /\ cam = "none" /\ sink = 0
    /\ yuv_buf = "none" /\ yuv_size = 0 /\ yuv = 0
    /\ bgra = "NULL" /\ grabRes = "none" /\ wrRes = 1
    /\ frame_ns = 0 /\ frames = 0 /\ iters = 0
    /\ now \in StartClocks
    /\ iterStart = NoTime /\ t0 = NoTime /\ t1 = NoTime
    /\ elapsed = 0 /\ remaining = 0 /\ lastSleep = NoSleep
    /\ summary = -1 /\ released = <<>> /\ exitCode = -1 /\ exitPath = "none"

\* return <code>; from main
Return(code, path) ==
    /\ pc' = "exited"
    /\ exitCode' = code
    /\ exitPath' = path

\* one getopt_long call and the switch on its result
GetOpt ==
    /\ pc = "getopt"
    /\ IF argv = <<>>
       THEN /\ pc' = "checkfps"
            /\ UNCHANGED <<optVars, exitCode, exitPath>>
       ELSE LET o == Head(argv) IN
            /\ argv' = Tail(argv)
            /\ CASE o.opt = "d" ->
                       /\ device' = o.arg
                       /\ UNCHANGED <<fps, pc, exitCode, exitPath>>
                 [] o.opt = "f" ->
                       /\ fps' = Atoi(o.arg)
                       /\ UNCHANGED <<device, pc, exitCode, exitPath>>
                 [] o.opt = "h" ->
                       /\ Return(0, "help")
                       /\ UNCHANGED <<device, fps>>
                 [] OTHER ->
                       /\ Return(1, "usage")
                       /\ UNCHANGED <<device, fps>>
    /\ UNCHANGED <<platform, handlers, sigVars, capVars, sinkVars, bufVars,
                   loopVars, timeVars, summary, released, shmVars, unitVars>>

\* faulty variant: a lower limit of 0 instead of 1
FpsOkOffByOne(f) == ~(f < 0 \/ f > MaxFps)

FpsOk(f) == ~(f < MinFps \/ f > MaxFps)

\* the range check and the two signal() calls
CheckFps ==
    /\ pc = "checkfps"
    /\ IF FpsOk(fps)
       THEN /\ handlers' = TRUE
            /\ pc' = "capture_init"
            /\ UNCHANGED <<exitCode, exitPath>>
       ELSE /\ Return(1, "fps")
            /\ UNCHANGED handlers
    /\ UNCHANGED <<platform, optVars, sigVars, capVars, sinkVars, bufVars,
                   loopVars, timeVars, summary, released, shmVars, unitVars>>

\* capture_init(), capture_width(), capture_height()
CaptureInit ==
    /\ pc = "capture_init"
    /\ \/ /\ Return(1, "capture_init")
          /\ UNCHANGED capVars
       \/ \E d \in Dims, s \in (IF platform = "linux" THEN {0, 1} ELSE {0}) :
             /\ cap' = "open"
             /\ use_shm' = s
             /\ w' = d[1]
             /\ h' = d[2]
             /\ pc' = "vcam_open"
             /\ UNCHANGED <<capbuf, exitCode, exitPath>>
    /\ UNCHANGED <<platform, handlers, optVars, sigVars, sinkVars, bufVars,
                   loopVars, timeVars, summary, released, shmVars, unitVars>>

\* a faulty variant: the malloc failure path that forgets the capture session
ReleasesLeakOnMalloc(path) ==
    CASE path = "vcam_open" -> <<"cap">>
      [] path = "malloc"    -> <<"cam">>
      [] path = "shutdown"  -> <<"yuv_buf", "cam", "cap">>

\* what main hands back, in order, on each path that leaves it after
\* capture_init succeeded: free(yuv_buf), vcam_close(cam), capture_free(cap)
Releases(path) ==
    CASE path = "vcam_open" -> <<"cap">>
      [] path = "malloc"    -> <<"cam", "cap">>
      [] path = "shutdown"  -> <<"yuv_buf", "cam", "cap">>

\* vcam_open(device, w, h)
VcamOpen ==
    /\ pc = "vcam_open"
    /\ \/ /\ cap' = "freed"
          /\ released' = released \o Releases("vcam_open")
          /\ Return(1, "vcam_open")
          /\ UNCHANGED cam
       \/ /\ cam' = "open"
          /\ pc' = "malloc"
          /\ UNCHANGED <<cap, released, exitCode, exitPath>>
    /\ UNCHANGED <<platform, handlers, optVars, sigVars, use_shm, capbuf, w, h,
                   sink, bufVars, loopVars, timeVars, summary, shmVars, unitVars>>

YuvSize(width, height) == (width * height * 3) \div 2

FrameNs(f) == NsPerSec \div f

\* yuv_buf = malloc(yuv_size), frame_ns, frames
Malloc ==
    /\ pc = "malloc"
    /\ yuv_size' = YuvSize(w, h)
    /\ \/ /\ cam' = "closed"
          /\ cap' = "freed"
          /\ released' = released \o Releases("malloc")
          /\ Return(1, "malloc")
          /\ UNCHANGED <<yuv_buf, frame_ns, frames>>
       \/ /\ yuv_buf' = "alloc"
          /\ frame_ns' = FrameNs(fps)
          /\ frames' = 0
          /\ pc' = "loop"
          /\ UNCHANGED <<cam, cap, released, exitCode, exitPath>>
    /\ UNCHANGED <<platform, handlers, optVars, sigVars, use_shm, capbuf, w, h,
                   sink, yuv, bgra, grabRes, wrRes, iters, timeVars, summary,
                   shmVars, unitVars>>

----------------------------------------------------------------------------
(* capture_grab(): src/src/capture.c:77-96, src/src/capture_win.c:180-252 *)

\* what one capture_grab call can meet: the result of XShmGetImage /
\* XGetImage, or of AcquireNextFrame and the calls after it
GrabOutcomes ==
    IF platform = "linux"
    THEN IF use_shm = 1 THEN {"ok"} ELSE {"ok", "xgetimage_failed"}
    ELSE {"ok", "timeout", "access_lost", "acquire_failed", "query_failed",
          "map_failed"}

\* the pointer capture_grab returns
GrabReturn(res) == IF res \in {"ok", "timeout"} THEN "buf" ELSE "NULL"

\* the content of the session's buffer after the call, given a screen to read
GrabBuffer(res, screen) ==
    CASE res = "ok" -> screen
      [] res = "xgetimage_failed" -> 0
      [] OTHER -> capbuf

\* how long the call may block
GrabTime(res) ==
    IF res = "timeout" THEN {Millis(AcquireTimeoutMs)} ELSE GrabTimes

----------------------------------------------------------------------------
(* main(): the pacing loop, src/src/main.c:104-136 *)

\* faulty variant: a loop that never looks at the flag
LoopCondIgnoresFlag == TRUE

LoopCond == running # 0

\* while (running) and clock_gettime(CLOCK_MONOTONIC, &t0)
LoopHead ==
    /\ pc = "loop"
    /\ IF LoopCond
       THEN /\ iters < MaxIters
            /\ iters' = iters + 1
            /\ t0' = ClockGettime
            /\ iterStart' = now
            /\ pc' = "grab"
       ELSE /\ pc' = "shutdown"
            /\ UNCHANGED <<iters, t0, iterStart>>
    /\ UNCHANGED <<platform, handlers, optVars, sigVars, capVars, sinkVars,
                   bufVars, bgra, grabRes, wrRes, frame_ns, frames, now, t1,
                   elapsed, remaining, lastSleep, exitVars, shmVars, unitVars>>

\* faulty variant: no NULL check on the grabbed pointer
AfterGrabNoNullCheck(ptr) == "convert"

\* where main goes after capture_grab returned ptr
AfterGrab(ptr) == IF ptr = "NULL" THEN "retry" ELSE "convert"

\* bgra = capture_grab(cap); if (!bgra)
Grab ==
    /\ pc = "grab"
    /\ \E res \in GrabOutcomes, screen \in Screens :
          /\ grabRes' = res
          /\ capbuf' = GrabBuffer(res, screen)
          /\ bgra' = GrabReturn(res)
          /\ pc' = AfterGrab(GrabReturn(res))
          /\ \E d \in GrabTime(res) : now' = TsAdd(now, d)
    /\ UNCHANGED <<platform, handlers, optVars, sigVars, cap, use_shm, w, h,
                   sinkVars, bufVars, wrRes, frame_ns, frames, iters,
                   iterStart, t0, t1, elapsed, remaining, lastSleep, exitVars,
                   shmVars, unitVars>>

\* "capture failed, retrying..."; usleep(100000); continue
Retry ==
    /\ pc = "retry"
    /\ lastSleep' = [NoSleep EXCEPT !.call = "usleep", !.usec = RetryUsec]
    /\ now' = TsAdd(now, Usleep(RetryUsec))
    /\ pc' = "loop"
    /\ UNCHANGED <<platform, handlers, optVars, sigVars, capVars, sinkVars,
                   bufVars, loopVars, iterStart, t0, t1, elapsed, remaining,
                   exitVars, shmVars, unitVars>>

\* bgra_to_yuv420p(bgra, yuv_buf, w, h): yuv_buf takes the conversion of
\* what the capture buffer holds
Convert ==
    /\ pc = "convert"
    /\ yuv' = capbuf
    /\ pc' = "write"
    /\ UNCHANGED <<platform, handlers, optVars, sigVars, capVars, sinkVars,
                   yuv_buf, yuv_size, loopVars, timeVars, exitVars, shmVars, unitVars>>

\* faulty variant: the result of vcam_write is ignored
AfterWriteIgnoresError(r) == "measure"

\* where main goes after vcam_write returned r
AfterWrite(r) == IF r < 0 THEN "shutdown" ELSE "measure"

\* if (vcam_write(cam, yuv_buf, yuv_size) < 0) break; frames++
Write ==
    /\ pc = "write"
    /\ \E r \in {0, -1}, d \in WriteTimes :
          /\ wrRes' = r
          /\ now' = TsAdd(now, d)
          /\ sink' = IF r = 0 THEN yuv ELSE sink
          /\ pc' = AfterWrite(r)
          /\ frames' = IF AfterWrite(r) = "measure" THEN frames + 1 ELSE frames
    /\ UNCHANGED <<platform, handlers, optVars, sigVars, capVars, cam, bufVars,
                   bgra, grabRes, frame_ns, iters, iterStart, t0, t1, elapsed,
                   remaining, lastSleep, exitVars, shmVars, unitVars>>

\* s * 10^9 + n, for 0 <= n < 10^9, as a long holds it.  The long of the
\* win build has 32 bits and keeps the value modulo 2^32, in
\* -2^31 .. 2^31 - 1 (2^31 = 2 * 10^9 + 147483648 and
\* 2^32 = 4 * 10^9 + 294967296); the long of the linux build has 64 bits.
Long(s, n) ==
    IF platform = "win" /\ ~(s < 2 \/ (s = 2 /\ n < 147483648))
    THEN (s - 4) * NsPerSec + (n - 294967296)
    ELSE s * NsPerSec + n

\* (t1.tv_sec - t0.tv_sec) * 1000000000L + (t1.tv_nsec - t0.tv_nsec):
\* TsSub(b, a) has the value of the expression, Long() its width
Elapsed(a, b) == Long(TsSub(b, a).tv_sec, TsSub(b, a).tv_nsec)

\* frame_ns - elapsed in a long: on the win build a difference above
\* 2^31 - 1 comes out 2^32 lower
Remaining(fns, el) ==
    IF platform = "win" /\ el < fns - 2147483647
    THEN ((fns - 2147483647) - el) - 2147483647 - 2
    ELSE fns - el

\* clock_gettime(CLOCK_MONOTONIC, &t1); elapsed; remaining; if (remaining > 0)
Measure ==
    /\ pc = "measure"
    /\ t1' = ClockGettime
    /\ elapsed' = Elapsed(t0, t1')
    /\ remaining' = Remaining(frame_ns, elapsed')
    /\ pc' = IF remaining' > 0 THEN "sleep" ELSE "loop"
    /\ UNCHANGED <<platform, handlers, optVars, sigVars, capVars, sinkVars,
                   bufVars, loopVars, now, iterStart, t0, lastSleep, exitVars,
                   shmVars, unitVars>>

\* struct timespec ts = { 0, remaining }; nanosleep(&ts, NULL)
Sleep ==
    /\ pc = "sleep"
    /\ lastSleep' = [NoSleep EXCEPT !.call = "nanosleep", !.tv_nsec = remaining]
    /\ now' = TsAdd(now, Nanosleep(Ts(0, remaining)))
    /\ pc' = "loop"
    /\ UNCHANGED <<platform, handlers, optVars, sigVars, capVars, sinkVars,
                   bufVars, loopVars, iterStart, t0, t1, elapsed, remaining,
                   exitVars, shmVars, unitVars>>

\* the code after the loop: summary, free, vcam_close, capture_free, return 0
Shutdown ==
    /\ pc = "shutdown"
    /\ summary' = frames
    /\ yuv_buf' = "freed"
    /\ cam' = "closed"
    /\ cap' = "freed"
    /\ released' = released \o Releases("shutdown")
    /\ Return(0, "shutdown")
    /\ UNCHANGED <<platform, handlers, optVars, sigVars, use_shm, capbuf, w, h,
                   sink, yuv_size, yuv, loopVars, timeVars, shmVars, unitVars>>

\* on_signal(), src/src/main.c:15-19, once the handlers are installed
OnSignal ==
    /\ handlers
    /\ pc # "exited"
    /\ running' = 0
    /\ sigFrames' = IF running # 0 THEN frames ELSE sigFrames
    /\ UNCHANGED <<platform, pc, handlers, optVars, capVars, sinkVars, bufVars,
                   loopVars, timeVars, exitVars, shmVars, unitVars>>

MainStep ==
    \/ GetOpt \/ CheckFps \/ CaptureInit \/ VcamOpen \/ Malloc
    \/ LoopHead \/ Grab \/ Retry \/ Convert \/ Write \/ Measure \/ Sleep
    \/ Shutdown

----------------------------------------------------------------------------
(* The parts of the pipeline taken one at a time: vcam_write, the converter *)
(* and the capture_grab of capture_win.c each have a specification of their *)
(* own, in which the other parts stay as they are here.                     *)

NoWrite == [off |-> 0, count |-> 0]

VcamIdle ==
    /\ frame_size = 0 /\ wlen = 0 /\ written = 0 /\ wn = 0
    /\ werrno = "none" /\ vcamPc = "idle" /\ vcamRet = 1
    /\ stream = <<>> /\ callStart = 0 /\ lastWrite = NoWrite
    /\ nwrites = 0 /\ ncalls = 0

ConvIdle ==
    /\ src = <<>> /\ dst = <<>> /\ wcount = <<>>
    /\ convW = 0 /\ convH = 0 /\ convI = 0 /\ convJ = 0 /\ convPc = "idle"

GpuIdle ==
    /\ gpuPc = "idle" /\ hr = "S_OK" /\ held = FALSE /\ mapped = FALSE
    /\ buffer = 0 /\ desktop = 0 /\ gpuRet = "none" /\ prevRet = -1
    /\ acquires = 0 /\ releases = 0 /\ ngrabs = 0

\* struct capture_ctx of capture_win.c as calloc leaves it
NullCtx ==
    [device |-> 0, context |-> 0, duplication |-> 0, staging |-> 0,
     width |-> 0, height |-> 0, buffer |-> 0]

WinInitIdle ==
    /\ initPc = "idle" /\ initHr = "S_OK" /\ comInits = 0 /\ ctx = NullCtx
    /\ acquired = <<>> /\ freed = <<>> /\ initRet = "none"
    /\ freeI = 0 /\ freeFrom = "none"

\* struct capture_ctx of capture.c as calloc leaves it
NullXCtx ==
    [dpy |-> 0, width |-> 0, height |-> 0, use_shm |-> 0, shmid |-> 0,
     shmaddr |-> 0, img |-> 0]

X11Idle ==
    /\ x11Pc = "idle" /\ xctx = NullXCtx /\ xheld = {} /\ xRet = "none"
    /\ xGrabRet = "none" /\ xdata = 0 /\ xgrabs = 0

SetupIdle == WinInitIdle /\ X11Idle

----------------------------------------------------------------------------
(* The shared-memory region, src/extension/shm_protocol.h.  The region is  *)
(* an array of 32-bit words: the header, then the frame data.              *)

SHM_MAGIC == 1395802957
SHM_VERSION == 1
PixelFmtBGRA == 1111970369

\* sizeof(shm_header_t) in words: six 32-bit fields, the 64-bit frame_seq,
\* pixel_fmt and five reserved words
HdrWords == 14

\* word offset of frame_seq in shm_header_t
FrameSeqOff == 6

\* faulty variant: the data area placed after the first six fields only
ShmFramePtrInsideHeader == FrameSeqOff

\* shm_frame_ptr(): the frame data starts right after the header
ShmFramePtr == HdrWords

\* shm_total_size(), in words
ShmTotalSize(width, height) == HdrWords + width * height

\* the frames of the model are one row of ShmWidth pixels
ShmPixels == ShmWidth * 1

\* the processes that have the region mapped read-only
Consumers == {"reader1", "reader2"}

\* the header as the producer writes it once at open
ShmHeader ==
    [i \in 0..(HdrWords - 1) |->
        CASE i = 0 -> SHM_MAGIC
          [] i = 1 -> SHM_VERSION
          [] i = 2 -> ShmWidth
          [] i = 3 -> 1
          [] i = 4 -> DefaultFps
          [] i = 5 -> ShmWidth * 4
          [] i = 8 -> PixelFmtBGRA
          [] OTHER -> 0]

NoFrame == [i \in 0..(ShmPixels - 1) |-> 0]

ConsumerInit ==
    [pc |-> "idle", last_seen |-> 0, seq1 |-> -1, del1 |-> 0, i |-> 0,
     buf |-> NoFrame, verdict |-> "none"]

\* no region yet
ShmIdle ==
    /\ shm = <<>>
    /\ prod = [pc |-> "closed", i |-> 0, tag |-> 0, res |-> 1]
    /\ cons = [c \in Consumers |-> ConsumerInit]
    /\ delivered = 0

\* the sink's open: create the region, write the header once
ShmOpen ==
    /\ prod.pc = "closed"
    /\ shm' = [i \in 0..(ShmTotalSize(ShmWidth, 1) - 1) |->
                 IF i < HdrWords THEN ShmHeader[i] ELSE 0]
    /\ prod' = [prod EXCEPT !.pc = "idle"]
    /\ UNCHANGED <<cons, delivered, mainVars, unitVars>>

\* deliver(): a frame shorter than the data area is rejected with no write;
\* otherwise the copy of frame number delivered + 1 starts
ShmDeliver ==
    /\ prod.pc = "idle"
    /\ \E len \in {ShmPixels - 1, ShmPixels} :
          IF len < ShmPixels
          THEN /\ prod' = [prod EXCEPT !.res = -1]
          ELSE /\ delivered < MaxDeliveries
               /\ prod' = [prod EXCEPT !.pc = "copy", !.i = 0,
                                        !.tag = delivered + 1]
    /\ UNCHANGED <<shm, cons, delivered, mainVars, unitVars>>

\* one word of the frame copy
ShmCopy ==
    /\ prod.pc = "copy"
    /\ shm' = [shm EXCEPT ![ShmFramePtr + prod.i] = prod.tag]
    /\ prod' = [prod EXCEPT !.i = prod.i + 1,
                            !.pc = IF prod.i + 1 = ShmPixels
                                   THEN "publish" ELSE "copy"]
    /\ UNCHANGED <<cons, delivered, mainVars, unitVars>>

\* the atomic increment of frame_seq that ends a delivery
ShmPublish ==
    /\ prod.pc = "publish"
    /\ shm' = [shm EXCEPT ![FrameSeqOff] = shm[FrameSeqOff] + 1]
    /\ prod' = [prod EXCEPT !.pc = "idle", !.res = 0]
    /\ delivered' = delivered + 1
    /\ UNCHANGED <<cons, mainVars, unitVars>>

\* a consumer polls frame_seq and compares it with its last-seen value;
\* del1 remembers how many deliveries had completed at that poll
ConsPoll(c) ==
    /\ shm # <<>>
    /\ cons[c].pc = "idle"
    /\ LET s == shm[FrameSeqOff] IN
       cons' = [cons EXCEPT ![c] =
                  [@ EXCEPT !.seq1 = s, !.del1 = delivered, !.i = 0,
                            !.buf = NoFrame, !.verdict = "none",
                            !.pc = IF s = cons[c].last_seen
                                   THEN "idle" ELSE "read"]]
    /\ UNCHANGED <<shm, prod, delivered, mainVars, unitVars>>

\* a consumer reads one word of the frame data
ConsRead(c) ==
    /\ cons[c].pc = "read"
    /\ cons' = [cons EXCEPT ![c] =
                  [@ EXCEPT !.buf = [@ EXCEPT ![cons[c].i] =
                                       shm[ShmFramePtr + cons[c].i]],
                            !.i = @ + 1,
                            !.pc = IF cons[c].i + 1 = ShmPixels
                                   THEN "check" ELSE "read"]]
    /\ UNCHANGED <<shm, prod, delivered, mainVars, unitVars>>

\* a consumer re-reads frame_seq: equal, it keeps the frame; else it drops it
ConsCheck(c) ==
    /\ cons[c].pc = "check"
    /\ LET s == shm[FrameSeqOff] IN
       cons' = [cons EXCEPT ![c] =
                  [@ EXCEPT !.verdict = IF s = cons[c].seq1
                                        THEN "kept" ELSE "torn",
                            !.last_seen = IF s = cons[c].seq1 THEN s ELSE @,
                            !.i = 0,
                            !.pc = "idle"]]
    /\ UNCHANGED <<shm, prod, delivered, mainVars, unitVars>>

Poll == \E c \in Consumers : ConsPoll(c)

Read == \E c \in Consumers : ConsRead(c)

Check == \E c \in Consumers : ConsCheck(c)

\* main() is not running in the protocol's specification
MainIdle ==
    /\ MainInit
    /\ platform = "linux"
    /\ argv = <<>>

ShmInit == MainIdle /\ ShmIdle /\ VcamIdle /\ ConvIdle /\ GpuIdle /\ SetupIdle

ShmNext ==
    \/ ShmOpen \/ ShmDeliver \/ ShmCopy \/ ShmPublish
    \/ Poll \/ Read \/ Check

ShmSpec == ShmInit /\ [][ShmNext]_vars

Init == MainInit /\ ShmIdle /\ VcamIdle /\ ConvIdle /\ GpuIdle /\ SetupIdle

Next ==
    \/ GetOpt \/ CheckFps \/ CaptureInit \/ VcamOpen \/ Malloc
    \/ LoopHead \/ Grab \/ Retry \/ Convert \/ Write \/ Measure \/ Sleep
    \/ Shutdown \/ OnSignal

Spec == Init /\ [][Next]_vars

FairSpec == Spec /\ WF_vars(MainStep)

----------------------------------------------------------------------------
(* vcam_write(): src/src/vcam.c:56-73 and src/src/vcam_win.c:66-85.  The    *)
(* byte at offset k of the frame is known by k; stream lists the offsets    *)
(* of the bytes the device accepted.                                        *)

\* ctx->frame_size as vcam_open computes it from the dimensions
FrameSizes == { YuvSize(d[1], d[2]) : d \in Dims }

\* the values of errno a failed write leaves
WriteErrnos == {"EINTR", "EPIPE"}

VcamInit ==
    /\ MainIdle /\ ShmIdle /\ ConvIdle /\ GpuIdle /\ SetupIdle
    /\ frame_size \in FrameSizes
    /\ wlen = 0 /\ written = 0 /\ wn = 0
    /\ werrno = "none" /\ vcamPc = "idle" /\ vcamRet = 1
    /\ stream = <<>> /\ callStart = 0 /\ lastWrite = NoWrite
    /\ nwrites = 0 /\ ncalls = 0

\* faulty variant: no length check
LenOkNoCheck(l, fs) == TRUE

\* if (len < ctx->frame_size) return -1
LenOk(l, fs) == ~(l < fs)

\* faulty variant: every write call starts at the head of the frame
WriteOffStart(wr) == 0

\* yuv420p + written
WriteOff(wr) == wr

\* ctx->frame_size - written
WriteCount(fs, wr) == fs - wr

\* faulty variant: every failed write is tried again
RetryableAny(e) == TRUE

\* errno == EINTR
Retryable(e) == e = "EINTR"

\* the offsets off .. off + k - 1
Bytes(off, k) == [x \in 1..k |-> off + x - 1]

\* the call and its length check; written = 0
VcamEnter ==
    /\ vcamPc = "idle"
    /\ ncalls < MaxCalls
    /\ ncalls' = ncalls + 1
    /\ callStart' = Len(stream)
    /\ wn' = 0
    /\ \E l \in {frame_size - 1, frame_size, frame_size + 1} :
          /\ wlen' = l
          /\ IF LenOk(l, frame_size)
             THEN /\ written' = 0
                  /\ vcamRet' = 1
                  /\ vcamPc' = "loop"
             ELSE /\ vcamRet' = -1
                  /\ vcamPc' = "idle"
                  /\ UNCHANGED written
    /\ UNCHANGED <<frame_size, werrno, stream, lastWrite, nwrites, mainVars, setupVars,
                   shmVars, convVars, gpuVars>>

\* while (written < ctx->frame_size) ... return 0
VcamLoop ==
    /\ vcamPc = "loop"
    /\ IF written < frame_size
       THEN vcamPc' = "write" /\ UNCHANGED vcamRet
       ELSE vcamPc' = "idle" /\ vcamRet' = 0
    /\ UNCHANGED <<frame_size, wlen, written, wn, werrno, stream, callStart,
                   lastWrite, nwrites, ncalls, mainVars, setupVars, shmVars, convVars,
                   gpuVars>>

\* n = write(ctx->fd, yuv420p + written, ctx->frame_size - written): the
\* device takes the first k bytes of the request, or the call fails.
\* nwrites counts the write calls up to MaxWrites and stays there.
VcamSysWrite ==
    /\ vcamPc = "write"
    /\ nwrites' = (IF nwrites < MaxWrites THEN nwrites + 1 ELSE nwrites)
    /\ lastWrite' = [off |-> WriteOff(written),
                     count |-> WriteCount(frame_size, written)]
    /\ \/ \E k \in 0..WriteCount(frame_size, written) :
             /\ wn' = k
             /\ stream' = stream \o Bytes(WriteOff(written), k)
             /\ UNCHANGED werrno
       \/ \E e \in WriteErrnos :
             /\ wn' = -1
             /\ werrno' = e
             /\ UNCHANGED stream
    /\ vcamPc' = "test"
    /\ UNCHANGED <<frame_size, wlen, written, vcamRet, callStart, ncalls,
                   mainVars, setupVars, shmVars, convVars, gpuVars>>

\* if (n < 0) { if (errno == EINTR) continue; return -1; } written += n
VcamTest ==
    /\ vcamPc = "test"
    /\ IF wn < 0
       THEN IF Retryable(werrno)
            THEN vcamPc' = "loop" /\ UNCHANGED <<written, vcamRet>>
            ELSE vcamPc' = "idle" /\ vcamRet' = -1 /\ UNCHANGED written
       ELSE /\ written' = written + wn
            /\ vcamPc' = "loop"
            /\ UNCHANGED vcamRet
    /\ UNCHANGED <<frame_size, wlen, wn, werrno, stream, callStart,
                   lastWrite, nwrites, ncalls, mainVars, setupVars, shmVars, convVars,
                   gpuVars>>

VcamNext == VcamEnter \/ VcamLoop \/ VcamSysWrite \/ VcamTest

VcamSpec == VcamInit /\ [][VcamNext]_vars

\* a vcam_write call that has begun keeps running: its code is a loop of
\* straight-line steps on main's thread, and each write call returns
VcamCallStep == VcamLoop \/ VcamSysWrite \/ VcamTest

VcamFairSpec == VcamSpec /\ WF_vars(VcamCallStep)

----------------------------------------------------------------------------
(* capture_grab() of the desktop-duplication variant,                       *)
(* src/src/capture_win.c:180-252, one action per call it makes.             *)

\* results of AcquireNextFrame
AcquireResults ==
    {"S_OK", "DXGI_ERROR_WAIT_TIMEOUT", "DXGI_ERROR_ACCESS_LOST", "E_FAIL"}

\* results of QueryInterface and of Map
CallResults == {"S_OK", "E_FAIL"}

GpuInit ==
    /\ MainIdle /\ ShmIdle /\ VcamIdle /\ ConvIdle /\ SetupIdle
    /\ gpuPc = "idle" /\ hr = "S_OK" /\ held = FALSE /\ mapped = FALSE
    /\ buffer = 0 /\ desktop \in Screens /\ gpuRet = "none" /\ prevRet = -1
    /\ acquires = 0 /\ releases = 0 /\ ngrabs = 0

\* faulty variant: the buffer is cleared when no new frame came
TimeoutBufferCleared(buf) == 0

\* the content of ctx->buffer after a call that timed out
TimeoutBuffer(buf) == buf

\* faulty variant: a failed Map returns with the frame still held
ReleasesFrameNotOnMapFailure(path) == path # "map_failed"

\* whether capture_grab calls ReleaseFrame on a path that has acquired a
\* frame: "query_failed", "map_failed" or "copied"
ReleasesFrame(path) == path \in {"query_failed", "map_failed", "copied"}

\* capture_grab(ctx) is entered
GpuCall ==
    /\ gpuPc = "idle"
    /\ ngrabs < MaxGrabs
    /\ ngrabs' = ngrabs + 1
    /\ prevRet' = IF gpuRet = "buf" THEN buffer ELSE -1
    /\ gpuRet' = "none"
    /\ acquires' = 0
    /\ releases' = 0
    /\ gpuPc' = "acquire"
    /\ UNCHANGED <<hr, held, mapped, buffer, desktop, mainVars, setupVars, shmVars,
                   vcamVars, convVars>>

\* hr = AcquireNextFrame(ctx->duplication, 100, ...): S_OK hands over a
\* frame of the desktop, which may have changed
GpuAcquire ==
    /\ gpuPc = "acquire"
    /\ \E res \in AcquireResults :
          /\ hr' = res
          /\ IF res = "S_OK"
             THEN /\ held' = TRUE
                  /\ acquires' = acquires + 1
                  /\ desktop' \in Screens
             ELSE UNCHANGED <<held, acquires, desktop>>
    /\ gpuPc' = "acquired"
    /\ UNCHANGED <<mapped, buffer, gpuRet, prevRet, releases, ngrabs,
                   mainVars, setupVars, shmVars, vcamVars, convVars>>

\* the three tests of hr after AcquireNextFrame
GpuAcquired ==
    /\ gpuPc = "acquired"
    /\ CASE hr = "DXGI_ERROR_WAIT_TIMEOUT" ->
               /\ buffer' = TimeoutBuffer(buffer)
               /\ gpuRet' = "buf"
               /\ gpuPc' = "idle"
         [] hr \in {"DXGI_ERROR_ACCESS_LOST", "E_FAIL"} ->
               /\ gpuRet' = "NULL"
               /\ gpuPc' = "idle"
               /\ UNCHANGED buffer
         [] OTHER ->
               /\ gpuPc' = "query"
               /\ UNCHANGED <<buffer, gpuRet>>
    /\ UNCHANGED <<hr, held, mapped, desktop, prevRet, acquires, releases,
                   ngrabs, mainVars, setupVars, shmVars, vcamVars, convVars>>

\* QueryInterface for the texture, Release(frame_resource), and on failure
\* ReleaseFrame and return NULL
GpuQuery ==
    /\ gpuPc = "query"
    /\ \E res \in CallResults :
          /\ hr' = res
          /\ IF res = "S_OK"
             THEN /\ gpuPc' = "map"
                  /\ UNCHANGED <<held, releases, gpuRet>>
             ELSE /\ held' = IF ReleasesFrame("query_failed")
                              THEN FALSE ELSE held
                  /\ releases' = IF ReleasesFrame("query_failed")
                                  THEN releases + 1 ELSE releases
                  /\ gpuRet' = "NULL"
                  /\ gpuPc' = "idle"
    /\ UNCHANGED <<mapped, buffer, desktop, prevRet, acquires, ngrabs,
                   mainVars, setupVars, shmVars, vcamVars, convVars>>

\* CopyResource, Release(frame_texture), Map, and on failure ReleaseFrame
\* and return NULL
GpuMap ==
    /\ gpuPc = "map"
    /\ \E res \in CallResults :
          /\ hr' = res
          /\ IF res = "S_OK"
             THEN /\ mapped' = TRUE
                  /\ gpuPc' = "memcpy"
                  /\ UNCHANGED <<held, releases, gpuRet>>
             ELSE /\ held' = IF ReleasesFrame("map_failed")
                              THEN FALSE ELSE held
                  /\ releases' = IF ReleasesFrame("map_failed")
                                  THEN releases + 1 ELSE releases
                  /\ gpuRet' = "NULL"
                  /\ gpuPc' = "idle"
                  /\ UNCHANGED mapped
    /\ UNCHANGED <<buffer, desktop, prevRet, acquires, ngrabs, mainVars, setupVars,
                   shmVars, vcamVars, convVars>>

\* the copy of the mapped pixels into ctx->buffer, in one memcpy or row by
\* row: either way the buffer holds the acquired frame
GpuMemcpy ==
    /\ gpuPc = "memcpy"
    /\ buffer' = desktop
    /\ gpuPc' = "unmap"
    /\ UNCHANGED <<hr, held, mapped, desktop, gpuRet, prevRet, acquires,
                   releases, ngrabs, mainVars, setupVars, shmVars, vcamVars, convVars>>

\* Unmap, ReleaseFrame, return ctx->buffer
GpuUnmap ==
    /\ gpuPc = "unmap"
    /\ mapped' = FALSE
    /\ held' = IF ReleasesFrame("copied") THEN FALSE ELSE held
    /\ releases' = IF ReleasesFrame("copied") THEN releases + 1 ELSE releases
    /\ gpuRet' = "buf"
    /\ gpuPc' = "idle"
    /\ UNCHANGED <<hr, buffer, desktop, prevRet, acquires, ngrabs, mainVars, setupVars,
                   shmVars, vcamVars, convVars>>

GpuNext ==
    \/ GpuCall \/ GpuAcquire \/ GpuAcquired \/ GpuQuery \/ GpuMap
    \/ GpuMemcpy \/ GpuUnmap

GpuSpec == GpuInit /\ [][GpuNext]_vars

----------------------------------------------------------------------------
(* bgra_to_yuv420p(): src/src/convert.c:12-43, one action per pixel.  src   *)
(* and dst are arrays of bytes; dst reaches past the width * height * 3 / 2 *)
(* bytes the caller allocates, so that a write beyond them is seen.         *)

\* dimensions the converter is called with
ConvDims == Dims \cup { <<4, 2>>, <<2, 4>> }

\* pixels as <<b, g, r, a>>: the corners of the colour cube, a grey, and a
\* red with alpha 0
Colours ==
    { <<cb, cg, cr, 255>> : cb \in {0, 255}, cg \in {0, 255}, cr \in {0, 255} }
    \cup { <<128, 128, 128, 255>>, <<0, 0, 255, 0>> }

\* the pixels of the images of more than four pixels
TwoColours == { <<255, 0, 0, 255>>, <<0, 0, 255, 0>> }

\* the images of width * height = np pixels, as byte arrays
Images(np) ==
    { [k \in 0..(4 * np - 1) |-> img[k \div 4][(k % 4) + 1]] :
        img \in [0..(np - 1) -> IF np <= 4 THEN Colours ELSE TwoColours] }

\* x >> 8 for an int: the shift keeps the sign
Shr8(x) == x \div 256

\* (uint8_t)(x < 0 ? 0 : (x > 255 ? 255 : x))
Clamp8(x) == IF x < 0 THEN 0 ELSE IF x > 255 THEN 255 ELSE x

\* faulty variant: luma without the offset of 16
LumaOfNoOffset(r, g, b) == Shr8(66 * r + 129 * g + 25 * b + 128)

LumaOf(r, g, b) == Shr8(66 * r + 129 * g + 25 * b + 128) + 16

CbOf(r, g, b) == Shr8((0 - 38) * r - 74 * g + 112 * b + 128) + 128

CrOf(r, g, b) == Shr8(112 * r - 94 * g - 18 * b + 128) + 128

\* faulty variant: the chroma is taken from the last pixel of each block
ChromaSampledLast(i, j) == (j % 2) = 1 /\ (i % 2) = 1

\* (j & 1) == 0 && (i & 1) == 0
ChromaSampled(i, j) == (j % 2) = 0 /\ (i % 2) = 0

\* u_plane - dst
UPlane(width, height) == width * height

\* faulty variant: the V plane laid over the U plane
VPlaneOverU(width, height) == width * height

\* v_plane - dst
VPlane(width, height) ==
    UPlane(width, height) + (width \div 2) * (height \div 2)

\* the call: src holds an image of width x height pixels, nothing of dst is
\* written yet, and the loops are at their first pixel
ConvInit ==
    /\ MainIdle /\ ShmIdle /\ VcamIdle /\ GpuIdle /\ SetupIdle
    /\ \E d \in ConvDims :
          /\ convW = d[1]
          /\ convH = d[2]
          /\ src \in Images(d[1] * d[2])
          /\ dst = [k \in 0..(2 * d[1] * d[2]) |-> -1]
          /\ wcount = [k \in 0..(2 * d[1] * d[2]) |-> 0]
    /\ convI = 0 /\ convJ = 0
    /\ convPc = "loop"

\* dst and wcount after the store dst[k] = v
Store(mem, k, v) ==
    [dst |-> [mem.dst EXCEPT ![k] = v],
     wcount |-> [mem.wcount EXCEPT ![k] = @ + 1]]

\* the body of the inner loop for pixel (convI, convJ), and the loop steps
ConvPixel ==
    /\ convPc = "loop"
    /\ LET idx == (convJ * convW + convI) * 4
           b == src[idx + 0]
           g == src[idx + 1]
           r == src[idx + 2]
           m0 == [dst |-> dst, wcount |-> wcount]
           m1 == Store(m0, convJ * convW + convI, Clamp8(LumaOf(r, g, b)))
           ci == (convJ \div 2) * (convW \div 2) + (convI \div 2)
           m2 == Store(m1, UPlane(convW, convH) + ci, Clamp8(CbOf(r, g, b)))
           m3 == Store(m2, VPlane(convW, convH) + ci, Clamp8(CrOf(r, g, b)))
           m  == IF ChromaSampled(convI, convJ) THEN m3 ELSE m1
       IN  /\ dst' = m.dst
           /\ wcount' = m.wcount
    /\ IF convI + 1 < convW
       THEN convI' = convI + 1 /\ UNCHANGED <<convJ, convPc>>
       ELSE /\ convI' = 0
            /\ convJ' = convJ + 1
            /\ convPc' = IF convJ + 1 < convH THEN "loop" ELSE "done"
    /\ UNCHANGED <<src, convW, convH, mainVars, setupVars, shmVars, vcamVars, gpuVars>>

ConvNext == ConvPixel

ConvSpec == ConvInit /\ [][ConvNext]_vars

----------------------------------------------------------------------------
(* capture_init() and capture_free() of the desktop-duplication variant:   *)
(* src/src/capture_win.c:55-175 and 254-271.  acquired and freed log the   *)
(* handles in the order the code obtains and releases them.                *)

\* the pointer fields of struct capture_ctx that own a resource
CtxHandles == {"device", "context", "duplication", "staging", "buffer"}

\* the interfaces capture_init holds only on its way to the duplication
TempHandles == {"dxgi_device", "adapter", "output", "output1"}

Handles == CtxHandles \cup TempHandles \cup {"ctx"}

\* FAILED(hr): S_OK and S_FALSE are the codes that are not negative
Failed(r) == r \notin {"S_OK", "S_FALSE"}

\* what a step of capture_init can report
StepResults == {"S_OK", "E_FAIL", "E_ACCESSDENIED"}

CoInitResults == {"S_OK", "S_FALSE", "RPC_E_CHANGED_MODE", "E_OUTOFMEMORY"}

\* the display sizes DXGI_OUTPUT_DESC can report
WinDims == Dims

SetupFrame == UNCHANGED <<mainVars, shmVars, vcamVars, convVars, gpuVars>>

WinInitInit ==
    /\ MainIdle /\ ShmIdle /\ VcamIdle /\ ConvIdle /\ GpuIdle /\ SetupIdle

\* return NULL; from capture_init
WinReturnNull ==
    /\ initRet' = "NULL"
    /\ initPc' = "returned"

\* goto fail, and main's capture_free(cap): the first line of capture_free
WinEnterFree(from) ==
    /\ initPc' = "free"
    /\ freeI' = 1
    /\ freeFrom' = from

\* hr = CoInitializeEx(NULL, COINIT_MULTITHREADED) and its test
WinCoInitialize ==
    /\ initPc = "idle"
    /\ \E r \in CoInitResults :
          /\ initHr' = r
          /\ comInits' = (IF Failed(r) THEN comInits ELSE comInits + 1)
          /\ IF Failed(r) /\ r # "S_FALSE" /\ r # "RPC_E_CHANGED_MODE"
             THEN WinReturnNull
             ELSE initPc' = "calloc" /\ UNCHANGED initRet
    /\ UNCHANGED <<ctx, acquired, freed, freeI, freeFrom, x11Vars>>
    /\ SetupFrame

\* ctx = calloc(1, sizeof(*ctx))
WinCalloc ==
    /\ initPc = "calloc"
    /\ \/ /\ WinReturnNull
          /\ UNCHANGED <<ctx, acquired>>
       \/ /\ ctx' = NullCtx
          /\ acquired' = Append(acquired, "ctx")
          /\ initPc' = "create_device"
          /\ UNCHANGED initRet
    /\ UNCHANGED <<initHr, comInits, freed, freeI, freeFrom, x11Vars>>
    /\ SetupFrame

\* D3D11CreateDevice(..., &ctx->device, ..., &ctx->context); on failure
\* free(ctx) and return NULL
WinCreateDevice ==
    /\ initPc = "create_device"
    /\ \E r \in StepResults :
          /\ initHr' = r
          /\ IF Failed(r)
             THEN /\ freed' = Append(freed, "ctx")
                  /\ WinReturnNull
                  /\ UNCHANGED <<ctx, acquired>>
             ELSE /\ ctx' = [ctx EXCEPT !.device = 1, !.context = 1]
                  /\ acquired' = acquired \o <<"device", "context">>
                  /\ initPc' = "query_device"
                  /\ UNCHANGED <<freed, initRet>>
    /\ UNCHANGED <<comInits, freeI, freeFrom, x11Vars>>
    /\ SetupFrame

\* a step that obtains the interface got after releasing the interface
\* drop it was asked of (drop = "none": nothing is released), and goes to
\* the fail label when it failed
WinChainStep(at, drop, got, next) ==
    /\ initPc = at
    /\ \E r \in StepResults :
          /\ initHr' = r
          /\ freed' = (IF drop = "none" THEN freed ELSE Append(freed, drop))
          /\ IF Failed(r)
             THEN /\ WinEnterFree("init")
                  /\ UNCHANGED acquired
             ELSE /\ acquired' = Append(acquired, got)
                  /\ initPc' = next
                  /\ UNCHANGED <<freeI, freeFrom>>
    /\ UNCHANGED <<comInits, initRet, x11Vars>>
    /\ SetupFrame

\* ID3D11Device_QueryInterface(ctx->device, IID_IDXGIDevice, &dxgi_device)
WinQueryDevice ==
    /\ WinChainStep("query_device", "none", "dxgi_device", "get_adapter")
    /\ UNCHANGED ctx

\* IDXGIDevice_GetAdapter(dxgi_device, &adapter); IDXGIDevice_Release
WinGetAdapter ==
    /\ WinChainStep("get_adapter", "dxgi_device", "adapter", "enum_outputs")
    /\ UNCHANGED ctx

\* IDXGIAdapter_EnumOutputs(adapter, 0, &output); IDXGIAdapter_Release
WinEnumOutputs ==
    /\ WinChainStep("enum_outputs", "adapter", "output", "get_desc")
    /\ UNCHANGED ctx

\* IDXGIOutput_GetDesc: ctx->width, ctx->height
WinGetDesc ==
    /\ initPc = "get_desc"
    /\ \E d \in WinDims :
          ctx' = [ctx EXCEPT !.width = d[1], !.height = d[2]]
    /\ initPc' = "query_output"
    /\ UNCHANGED <<initHr, comInits, acquired, freed, initRet, freeI,
                   freeFrom, x11Vars>>
    /\ SetupFrame

\* IDXGIOutput_QueryInterface(output, IID_IDXGIOutput1, &output1);
\* IDXGIOutput_Release(output)
WinQueryOutput ==
    /\ WinChainStep("query_output", "output", "output1", "duplicate")
    /\ UNCHANGED ctx

\* IDXGIOutput1_DuplicateOutput(output1, ctx->device, &ctx->duplication);
\* IDXGIOutput1_Release(output1)
WinDuplicateOutput ==
    /\ WinChainStep("duplicate", "output1", "duplication", "create_texture")
    /\ ctx' = [ctx EXCEPT !.duplication = (IF Failed(initHr') THEN 0 ELSE 1)]

\* ID3D11Device_CreateTexture2D(ctx->device, &staging_desc, NULL,
\* &ctx->staging)
WinCreateTexture ==
    /\ WinChainStep("create_texture", "none", "staging", "malloc")
    /\ ctx' = [ctx EXCEPT !.staging = (IF Failed(initHr') THEN 0 ELSE 1)]

\* ctx->buffer = malloc(ctx->buffer_size); return ctx
WinMalloc ==
    /\ initPc = "malloc"
    /\ \/ /\ WinEnterFree("init")
          /\ UNCHANGED <<ctx, acquired, initRet>>
       \/ /\ ctx' = [ctx EXCEPT !.buffer = 1]
          /\ acquired' = Append(acquired, "buffer")
          /\ initRet' = "ctx"
          /\ initPc' = "ready"
          /\ UNCHANGED <<freeI, freeFrom>>
    /\ UNCHANGED <<initHr, comInits, freed, x11Vars>>
    /\ SetupFrame

\* capture_free(cap) called by main on a session that capture_init returned
WinCaptureFree ==
    /\ initPc = "ready"
    /\ WinEnterFree("main")
    /\ UNCHANGED <<initHr, comInits, ctx, acquired, freed, initRet, x11Vars>>
    /\ SetupFrame

\* faulty variant: the device first
FreeOrderDeviceFirst ==
    <<"device", "context", "duplication", "staging", "buffer">>

\* the order in which capture_free goes through the fields of ctx
FreeOrder == <<"staging", "duplication", "context", "device", "buffer">>

\* faulty variant: no test of the field
ReleaseIfAlways(p) == TRUE

\* if (ctx->x) X_Release(ctx->x); and free(ctx->buffer), which does nothing
\* for NULL
ReleaseIf(p) == p # 0

\* one release of capture_free
WinFreeStep ==
    /\ initPc = "free"
    /\ freeI <= Len(FreeOrder)
    /\ freed' = (IF ReleaseIf(ctx[FreeOrder[freeI]])
                 THEN Append(freed, FreeOrder[freeI])
                 ELSE freed)
    /\ freeI' = freeI + 1
    /\ UNCHANGED <<initPc, initHr, comInits, ctx, acquired, initRet, freeFrom,
                   x11Vars>>
    /\ SetupFrame

\* free(ctx), and the return NULL after the fail label
WinFreeCtx ==
    /\ initPc = "free"
    /\ freeI = Len(FreeOrder) + 1
    /\ freed' = Append(freed, "ctx")
    /\ IF freeFrom = "init"
       THEN WinReturnNull
       ELSE initPc' = "closed" /\ UNCHANGED initRet
    /\ UNCHANGED <<initHr, comInits, ctx, acquired, freeI, freeFrom, x11Vars>>
    /\ SetupFrame

WinInitNext ==
    \/ WinCoInitialize \/ WinCalloc \/ WinCreateDevice \/ WinQueryDevice
    \/ WinGetAdapter \/ WinEnumOutputs \/ WinGetDesc \/ WinQueryOutput
    \/ WinDuplicateOutput \/ WinCreateTexture \/ WinMalloc
    \/ WinCaptureFree \/ WinFreeStep \/ WinFreeCtx

WinInitSpec == WinInitInit /\ [][WinInitNext]_vars

----------------------------------------------------------------------------
(* capture_init(), capture_grab() and capture_free() of the X11 variant:   *)
(* src/src/capture.c:23-116.  xheld is the set of resources the session    *)
(* holds: the struct ("ctx"), the display connection ("dpy"), the XImage   *)
(* ("img"), the System V segment ("seg"), its mapping into the process     *)
(* ("map") and its attachment in the X server ("attach").                  *)

\* the resources of the MIT-SHM path
FastPath == {"img", "seg", "map", "attach"}

X11Frame ==
    UNCHANGED <<mainVars, shmVars, vcamVars, convVars, gpuVars, winInitVars>>

X11Init ==
    /\ MainIdle /\ ShmIdle /\ VcamIdle /\ ConvIdle /\ GpuIdle /\ SetupIdle

\* ctx = calloc(1, sizeof(*ctx))
X11Calloc ==
    /\ x11Pc = "idle"
    /\ \/ /\ xRet' = "NULL"
          /\ x11Pc' = "returned"
          /\ UNCHANGED <<xctx, xheld>>
       \/ /\ xctx' = NullXCtx
          /\ xheld' = xheld \cup {"ctx"}
          /\ x11Pc' = "open_display"
          /\ UNCHANGED xRet
    /\ UNCHANGED <<xGrabRet, xdata, xgrabs>>
    /\ X11Frame

\* ctx->dpy = XOpenDisplay(NULL); root, width, height
X11OpenDisplay ==
    /\ x11Pc = "open_display"
    /\ \/ /\ xheld' = xheld \ {"ctx"}
          /\ xRet' = "NULL"
          /\ x11Pc' = "returned"
          /\ UNCHANGED xctx
       \/ \E d \in Dims :
             /\ xctx' = [xctx EXCEPT !.dpy = 1, !.width = d[1],
                                     !.height = d[2]]
             /\ xheld' = xheld \cup {"dpy"}
             /\ x11Pc' = "query_extension"
             /\ UNCHANGED xRet
    /\ UNCHANGED <<xGrabRet, xdata, xgrabs>>
    /\ X11Frame

\* ctx->use_shm = XShmQueryExtension(ctx->dpy) ? 1 : 0; if (ctx->use_shm)
X11QueryExtension ==
    /\ x11Pc = "query_extension"
    /\ \E e \in {0, 1} :
          /\ xctx' = [xctx EXCEPT !.use_shm = e]
          /\ x11Pc' = (IF e = 1 THEN "create_image" ELSE "return")
    /\ UNCHANGED <<xheld, xRet, xGrabRet, xdata, xgrabs>>
    /\ X11Frame

\* ctx->img = XShmCreateImage(...); if (!ctx->img) ctx->use_shm = 0
X11CreateImage ==
    /\ x11Pc = "create_image"
    /\ \/ /\ xctx' = [xctx EXCEPT !.img = 0, !.use_shm = 0]
          /\ x11Pc' = "return"
          /\ UNCHANGED xheld
       \/ /\ xctx' = [xctx EXCEPT !.img = 1]
          /\ xheld' = xheld \cup {"img"}
          /\ x11Pc' = "shmget"
    /\ UNCHANGED <<xRet, xGrabRet, xdata, xgrabs>>
    /\ X11Frame

\* ctx->shm_info.shmid = shmget(...); on failure XDestroyImage,
\* img = NULL, use_shm = 0
X11Shmget ==
    /\ x11Pc = "shmget"
    /\ \/ /\ xctx' = [xctx EXCEPT !.shmid = -1, !.img = 0, !.use_shm = 0]
          /\ xheld' = xheld \ {"img"}
          /\ x11Pc' = "return"
       \/ /\ xctx' = [xctx EXCEPT !.shmid = 1]
          /\ xheld' = xheld \cup {"seg"}
          /\ x11Pc' = "shmat"
    /\ UNCHANGED <<xRet, xGrabRet, xdata, xgrabs>>
    /\ X11Frame

\* ctx->shm_info.shmaddr = ctx->img->data = shmat(shmid, NULL, 0): the
\* address of the mapping, or (void *)-1; the result is not tested
X11Shmat ==
    /\ x11Pc = "shmat"
    /\ \/ /\ xctx' = [xctx EXCEPT !.shmaddr = 1]
          /\ xheld' = xheld \cup {"map"}
       \/ /\ xctx' = [xctx EXCEPT !.shmaddr = -1]
          /\ UNCHANGED xheld
    /\ x11Pc' = "attach"
    /\ UNCHANGED <<xRet, xGrabRet, xdata, xgrabs>>
    /\ X11Frame

\* XShmAttach(ctx->dpy, &ctx->shm_info); XSync(ctx->dpy, False): the server
\* attaches the segment or refuses; the result is not tested
X11Attach ==
    /\ x11Pc = "attach"
    /\ \/ xheld' = xheld \cup {"attach"}
       \/ UNCHANGED xheld
    /\ x11Pc' = "return"
    /\ UNCHANGED <<xctx, xRet, xGrabRet, xdata, xgrabs>>
    /\ X11Frame

\* return ctx
X11Return ==
    /\ x11Pc = "return"
    /\ xRet' = "ctx"
    /\ x11Pc' = "ready"
    /\ UNCHANGED <<xctx, xheld, xGrabRet, xdata, xgrabs>>
    /\ X11Frame

\* what XShmGetImage into ctx->img and the return of img->data give:
\* the picture when the segment is mapped and attached; an address that is
\* no mapping when shmat failed; an X error with nothing filled in when
\* the server does not have the segment
FastGrabResult(res) ==
    IF "map" \notin res THEN "badptr"
    ELSE IF "attach" \notin res THEN "xerror"
    ELSE "data"

\* capture_grab(ctx)
X11Grab ==
    /\ x11Pc = "ready"
    /\ xgrabs < MaxGrabs
    /\ xgrabs' = xgrabs + 1
    /\ IF xctx.use_shm = 1
       THEN /\ xGrabRet' = FastGrabResult(xheld)
            /\ \E d \in Screens :
                  xdata' = (IF FastGrabResult(xheld) = "data" THEN d ELSE xdata)
            /\ UNCHANGED <<xctx, xheld>>
       ELSE \/ /\ xctx' = [xctx EXCEPT !.img = 0]
               /\ xheld' = xheld \ {"img"}
               /\ xdata' = 0
               /\ xGrabRet' = "NULL"
            \/ \E d \in Screens :
                  /\ xctx' = [xctx EXCEPT !.img = 1]
                  /\ xheld' = xheld \cup {"img"}
                  /\ xdata' = d
                  /\ xGrabRet' = "data"
    /\ UNCHANGED <<x11Pc, xRet>>
    /\ X11Frame

\* what capture_free(ctx) releases: XShmDetach, shmdt, shmctl(IPC_RMID)
\* when use_shm; XDestroyImage when img; XCloseDisplay when dpy; free(ctx)
X11Released(c) ==
    (IF c.use_shm = 1 THEN {"attach", "map", "seg"} ELSE {})
       \cup (IF c.img # 0 THEN {"img"} ELSE {})
       \cup (IF c.dpy # 0 THEN {"dpy"} ELSE {})
       \cup {"ctx"}

\* capture_free(ctx)
X11Free ==
    /\ x11Pc = "ready"
    /\ xheld' = xheld \ X11Released(xctx)
    /\ x11Pc' = "closed"
    /\ UNCHANGED <<xctx, xRet, xGrabRet, xdata, xgrabs>>
    /\ X11Frame

X11Next ==
    \/ X11Calloc \/ X11OpenDisplay \/ X11QueryExtension \/ X11CreateImage
    \/ X11Shmget \/ X11Shmat \/ X11Attach \/ X11Return \/ X11Grab
    \/ X11Free

X11Spec == X11Init /\ [][X11Next]_vars

----------------------------------------------------------------------------
(* Properties of the pacing loop *)

\* the positions of main() inside the while loop
LoopPcs == {"loop", "grab", "retry", "convert", "write", "measure", "sleep"}

\* a step taken by main() itself (the signal handler leaves pc alone)
MainMoves == pc' # pc

\* C1: once capture_grab has reported access lost, main goes to the code
\* after the loop and makes no further capture_grab call on the session.
C1_AccessLostStops ==
    [][/\ (pc = "grab" /\ MainMoves /\ grabRes' = "access_lost" =>
             pc' = "shutdown")
       /\ (grabRes = "access_lost" => ~(pc = "grab" /\ MainMoves))]_vars

\* C5: on_signal only clears the flag and leaves the iteration in flight
\* alone; with the flag clear the loop head starts no iteration, so at most
\* one frame is counted after the signal; and, every call returning, main
\* reaches the shutdown code and exits through it.
C5_CooperativeCancel ==
    /\ [][running # 0 /\ running' = 0 =>
             UNCHANGED <<pc, capVars, sinkVars, bufVars, loopVars, timeVars,
                         exitVars>>]_vars
    /\ [][running = 0 /\ pc = "loop" /\ MainMoves => pc' = "shutdown"]_vars
    /\ [](running = 0 => frames <= sigFrames + 1)
    /\ ((running = 0 /\ pc \in LoopPcs)
          ~> (pc = "exited" /\ exitPath = "shutdown" /\ summary = frames
              /\ cam = "closed" /\ cap = "freed"))

\* a run that was cancelled before the write of an iteration and still
\* delivered that one frame before it stopped
C5_Witness ==
    /\ pc = "exited" /\ exitPath = "shutdown"
    /\ running = 0 /\ wrRes = 0
    /\ sigFrames >= 0 /\ frames = sigFrames + 1

\* C6: a failed XGetImage on the fallback path sends main to the retry:
\* nothing is converted, delivered or counted, main does not exit, usleep
\* is called with 100000 us (100 ms), and the loop condition is evaluated
\* next, leading to another capture_grab if the flag is still set.
C6_RecoverableRetry ==
    [][/\ (pc = "grab" /\ MainMoves /\ grabRes' = "xgetimage_failed" =>
              /\ pc' = "retry"
              /\ UNCHANGED <<yuv, sink, frames, wrRes, exitCode>>)
       /\ (pc = "retry" /\ MainMoves =>
              /\ pc' = "loop"
              /\ lastSleep'.call = "usleep"
              /\ lastSleep'.usec * 1000 = 100 * 1000000
              /\ UNCHANGED <<yuv, sink, frames, wrRes, exitCode>>)
       /\ (pc = "loop" /\ grabRes = "xgetimage_failed" /\ MainMoves =>
              pc' = IF running # 0 THEN "grab" ELSE "shutdown")]_vars

\* a second capture_grab call made after a failed one and its 100 ms wait
C6_Witness ==
    /\ platform = "linux" /\ use_shm = 0
    /\ pc = "convert" /\ grabRes = "ok"
    /\ lastSleep.call = "usleep" /\ iters = 2 /\ frames = 0

\* C7: when vcam_write returns -1 main leaves the loop: the frame is not
\* counted, no capture, conversion or delivery follows, and the only way
\* on is the shutdown code, which prints the total, closes the sink and
\* frees the capture session.
C7_WriteErrorStops ==
    /\ [][/\ (pc = "write" /\ MainMoves /\ wrRes' = -1 =>
                  pc' = "shutdown" /\ frames' = frames /\ sink' = sink)
           /\ (wrRes = -1 =>
                  UNCHANGED <<capbuf, bgra, grabRes, yuv, sink, frames, wrRes>>)
          ]_vars
    /\ [](wrRes = -1 => pc \in {"shutdown", "exited"})
    /\ [](wrRes = -1 /\ pc = "exited" =>
            /\ exitPath = "shutdown" /\ summary = frames
            /\ cam = "closed" /\ cap = "freed"
            /\ released = <<"yuv_buf", "cam", "cap">>)

\* a run ended by a write failure after one delivered frame
C7_Witness ==
    /\ wrRes = -1 /\ pc = "exited" /\ running # 0
    /\ frames = 1 /\ summary = 1 /\ iters = 2

\* C8: main returns 0 after help or a cancelled run, and 1 after every
\* start-up error and after a run that a vcam_write failure ended.
C8_ExitCodes ==
    pc = "exited" =>
       exitCode = IF \/ exitPath = "help"
                     \/ (exitPath = "shutdown" /\ wrRes # -1)
                  THEN 0 ELSE 1

\* C9: the range check lets main go on to capture_init exactly when
\* 1 <= fps <= 60; any other value makes main return 1 with neither the
\* capture session nor the sink ever opened.
C9_FpsRange ==
    /\ [][pc = "checkfps" /\ MainMoves =>
             IF fps \in 1..60
             THEN pc' = "capture_init" /\ exitCode' = -1
             ELSE /\ pc' = "exited" /\ exitCode' = 1
                  /\ cap' = "none" /\ cam' = "none"]_vars
    /\ [](cap # "none" \/ cam # "none" => fps \in 1..60)
    /\ [](pc = "exited" /\ fps \notin 1..60 =>
            cap = "none" /\ cam = "none" /\ iters = 0)

\* -f 61 rejected by the range check
C9_Witness ==
    /\ pc = "exited" /\ exitPath = "fps" /\ exitCode = 1
    /\ fps = 61 /\ cap = "none" /\ cam = "none"

\* the time since the current iteration began is at least ns (ns <= 10^9)
SinceStartGeq(ns) ==
    TsSub(now, iterStart).tv_sec >= 1 \/ TsSub(now, iterStart).tv_nsec >= ns

\* C10: after a delivered frame the sleep asked for is max(0, frame_ns - e),
\* e being the time since this iteration's own start: with e >= frame_ns
\* main goes back to the loop head without a sleep call, otherwise it calls
\* nanosleep with exactly frame_ns - e > 0; nothing of earlier iterations
\* enters the amount.
C10_SleepAmount ==
    [][/\ (pc = "measure" /\ MainMoves =>
              IF SinceStartGeq(frame_ns)
              THEN pc' = "loop" /\ lastSleep' = lastSleep /\ now' = now
              ELSE /\ pc' = "sleep"
                   /\ remaining' = frame_ns - TsSub(now, iterStart).tv_nsec)
       /\ (pc = "sleep" /\ MainMoves =>
              /\ ~SinceStartGeq(frame_ns)
              /\ lastSleep'.call = "nanosleep"
              /\ lastSleep'.tv_sec = 0
              /\ lastSleep'.tv_nsec = frame_ns - TsSub(now, iterStart).tv_nsec
              /\ lastSleep'.tv_nsec > 0)]_vars

\* the same, for the iterations whose length fits the long that holds it:
\* every iteration of the linux build, and those of the win build that
\* last less than 2^31 ns
C10_SleepAmountInRange ==
    [][(platform = "win" =>
           \/ TsSub(now, iterStart).tv_sec < 2
           \/ (TsSub(now, iterStart).tv_sec = 2
                 /\ TsSub(now, iterStart).tv_nsec < 147483648))
        => /\ (pc = "measure" /\ MainMoves =>
                 IF SinceStartGeq(frame_ns)
                 THEN pc' = "loop" /\ lastSleep' = lastSleep /\ now' = now
                 ELSE /\ pc' = "sleep"
                      /\ remaining' =
                            frame_ns - TsSub(now, iterStart).tv_nsec)
           /\ (pc = "sleep" /\ MainMoves =>
                 /\ ~SinceStartGeq(frame_ns)
                 /\ lastSleep'.call = "nanosleep"
                 /\ lastSleep'.tv_sec = 0
                 /\ lastSleep'.tv_nsec =
                       frame_ns - TsSub(now, iterStart).tv_nsec
                 /\ lastSleep'.tv_nsec > 0)]_vars

\* a win iteration of 3 s, longer than any frame interval, that is about
\* to call nanosleep all the same
C10_OverflowSleeps ==
    /\ platform = "win" /\ pc = "sleep"
    /\ TsSub(now, iterStart).tv_sec >= 3
    /\ elapsed < 0 /\ remaining > frame_ns

\* an iteration whose two clock readings lie on either side of a full second
C10_SecondBoundary ==
    /\ pc = "sleep" /\ t1.tv_sec > t0.tv_sec /\ t1.tv_nsec < t0.tv_nsec

\* C19: an iteration goes from the start timestamp to capture_grab, then
\* to the conversion, the delivery, the second timestamp and the sleep, in
\* that order and skipping none but the sleep; the frame the sink accepts
\* is the conversion of what the capture buffer holds since the grab of
\* this iteration; and the pointer is read only by the conversion that
\* follows the grab that returned it, with the capture session still open.
C19_IterationOrder ==
    /\ [][MainMoves =>
             /\ (pc = "loop" => /\ pc' \in {"grab", "shutdown"}
                                /\ (pc' = "grab" => t0' = now))
             /\ (pc = "grab" => pc' \in {"retry", "convert"})
             /\ (pc = "retry" => pc' = "loop")
             /\ (pc = "convert" => pc' = "write" /\ yuv' = capbuf)
             /\ (pc = "write" => /\ pc' \in {"measure", "shutdown"}
                                 /\ (pc' = "measure" =>
                                        sink' = yuv /\ yuv = capbuf))
             /\ (pc = "measure" => pc' \in {"sleep", "loop"} /\ t1' = now)
             /\ (pc = "sleep" => pc' = "loop")]_vars
    /\ [][pc' = "convert" /\ MainMoves =>
             /\ pc = "grab"
             /\ bgra' = "buf"
             /\ grabRes' \in {"ok", "timeout"}]_vars
    /\ [][(pc = "convert" \/ pc = "write") =>
             UNCHANGED <<capbuf, bgra>>]_vars
    /\ [](pc \in {"grab", "convert", "write", "measure", "sleep"} =>
            cap = "open" /\ yuv_buf = "alloc")
    /\ [](cap = "freed" => pc = "exited")

\* a second iteration that delivered the frame it captured and is about
\* to sleep
C19_Witness ==
    /\ pc = "sleep" /\ iters = 2 /\ frames = 2
    /\ grabRes = "ok" /\ bgra = "buf"
    /\ sink = yuv /\ yuv = capbuf /\ capbuf \in Screens

\* C26: every nanosleep call of the loop asks for tv_sec = 0 and a tv_nsec
\* above 0 and below 1000000000.
C26_ValidInterval ==
    lastSleep.call = "nanosleep" =>
       /\ lastSleep.tv_sec = 0
       /\ lastSleep.tv_nsec > 0
       /\ lastSleep.tv_nsec < NsPerSec

\* -f 1 and an iteration between whose clock readings no time passed: the
\* loop has asked nanosleep for a whole second in tv_nsec
C26_FullSecondAsked ==
    /\ fps = 1 /\ lastSleep.call = "nanosleep"
    /\ elapsed = 0 /\ lastSleep.tv_nsec = NsPerSec

\* the number of times main has released resource x
ReleaseCount(x) == Cardinality({i \in DOMAIN released : released[i] = x})

\* C23: when main has returned, a capture session that was opened has been
\* freed exactly once and a sink that was opened has been closed exactly
\* once, the sink before the session; nothing that was never opened is
\* released, and main takes no step with a released session or sink.
C23_ReleasedOnce ==
    /\ ReleaseCount("cap") = (IF cap = "freed" THEN 1 ELSE 0)
    /\ ReleaseCount("cam") = (IF cam = "closed" THEN 1 ELSE 0)
    /\ pc = "exited" => cap \in {"none", "freed"} /\ cam \in {"none", "closed"}
    /\ cap = "freed" \/ cam = "closed" => pc = "exited"
    /\ cam = "closed" => cap = "freed"
    /\ \A i, j \in DOMAIN released :
          released[i] = "cam" /\ released[j] = "cap" => i < j
    /\ exitPath = "capture_init" => cap = "none" /\ released = <<>>
    /\ exitPath = "vcam_open" => cam = "none" /\ released = <<"cap">>

\* main has returned because malloc failed, with both the sink and the
\* session open before
C23_Witness ==
    /\ pc = "exited" /\ exitPath = "malloc"
    /\ released = <<"cam", "cap">>

----------------------------------------------------------------------------
(* Properties of vcam_write *)

\* the bytes the device accepted since the current call began
CallBytes == SubSeq(stream, callStart + 1, Len(stream))

\* a step that is one write call of vcam_write
SysWriteStep == vcamPc = "write" /\ vcamPc' = "test"

\* C11: a vcam_write call whose len is below frame_size returns -1 with
\* no write call made; the bytes the device holds and the fields of the
\* sink are as before the call.
C11_ShortFrameRejected ==
    /\ [][vcamPc = "idle" /\ ncalls' # ncalls /\ wlen' < frame_size =>
             /\ vcamRet' = -1 /\ vcamPc' = "idle"
             /\ UNCHANGED <<stream, nwrites, lastWrite, frame_size>>]_vars
    /\ [](vcamPc # "idle" => wlen >= frame_size)
    /\ [](wlen < frame_size /\ ncalls > 0 =>
            vcamRet = -1 /\ Len(stream) = callStart)

\* a short frame rejected after a frame that was delivered whole
C11_Witness ==
    /\ ncalls = 2 /\ wlen = frame_size - 1 /\ vcamRet = -1
    /\ stream = Bytes(0, frame_size) /\ nwrites = 1

\* C12: vcam_write returns 0 only when the device has accepted the bytes
\* 0 .. frame_size - 1 of the frame, each once and in order; every write
\* call starts at the number of bytes accepted so far in the call and asks
\* for all the bytes that remain, and the device takes no more than asked.
C12_ExactlyOneFrame ==
    /\ [](vcamPc = "idle" /\ vcamRet = 0 =>
            CallBytes = Bytes(0, frame_size))
    /\ [][SysWriteStep =>
             /\ lastWrite'.off = Len(CallBytes)
             /\ lastWrite'.count = frame_size - Len(CallBytes)
             /\ lastWrite'.count > 0
             /\ Len(stream') - Len(stream) <= lastWrite'.count]_vars
    /\ [](vcamPc \in {"loop", "write"} =>
            written = Len(CallBytes) /\ CallBytes = Bytes(0, written))

\* a frame delivered by three write calls, one of them interrupted and the
\* last one starting inside the frame
C12_Witness ==
    /\ vcamPc = "idle" /\ vcamRet = 0 /\ nwrites = 3
    /\ werrno = "EINTR" /\ lastWrite.off > 0
    /\ CallBytes = Bytes(0, frame_size)

\* C13: after a failed write vcam_write goes round the loop again only
\* when errno is EINTR, with written as it was, so the next write call
\* repeats the request; any other failure returns -1, and no write call
\* follows in that vcam_write call.
C13_RetryOnlyEintr ==
    /\ [][vcamPc = "test" /\ wn < 0 /\ vcamPc' # vcamPc =>
             IF werrno = "EINTR"
             THEN vcamPc' = "loop" /\ written' = written /\ vcamRet' = 1
             ELSE vcamPc' = "idle" /\ vcamRet' = -1]_vars
    /\ [][wn < 0 /\ SysWriteStep =>
             werrno = "EINTR" /\ lastWrite' = lastWrite]_vars
    /\ [][vcamRet = -1 /\ ncalls' = ncalls => ~SysWriteStep]_vars

\* a call that met a broken pipe at its third write call, with part of
\* the frame sent
C13_Witness ==
    /\ vcamPc = "idle" /\ vcamRet = -1 /\ werrno = "EPIPE"
    /\ written > 0 /\ written < frame_size /\ nwrites = 3
    /\ Len(CallBytes) = written

\* write fails with EINTR only finitely often
EintrFinitelyOften ==
    <>[](~(vcamPc = "test" /\ wn < 0 /\ werrno = "EINTR"))

\* C25: when write is interrupted only finitely often, every vcam_write
\* call that has begun returns.
C25_CallReturns ==
    EintrFinitelyOften => (vcamPc # "idle" ~> vcamPc = "idle")

\* a write call that took no byte of a request for bytes: vcam_write goes
\* round the loop with written as it was
C25_ZeroWrite ==
    /\ vcamPc = "loop" /\ wn = 0 /\ written < frame_size
    /\ nwrites = MaxWrites /\ Len(CallBytes) = written

----------------------------------------------------------------------------
(* Properties of capture_grab in the desktop-duplication variant *)

\* C14: a capture_grab call whose AcquireNextFrame timed out returns the
\* buffer, not NULL, and leaves every byte of it alone: when the call
\* before it returned the buffer too, the content handed out is the same.
C14_TimeoutKeepsFrame ==
    /\ [][gpuPc = "acquired" /\ hr = "DXGI_ERROR_WAIT_TIMEOUT"
             /\ gpuPc' # gpuPc =>
               gpuRet' = "buf" /\ buffer' = buffer /\ gpuPc' = "idle"]_vars
    /\ [](gpuPc = "idle" /\ hr = "DXGI_ERROR_WAIT_TIMEOUT" /\ ngrabs > 0 =>
            /\ gpuRet = "buf"
            /\ acquires = 0
            /\ (prevRet # -1 => buffer = prevRet))

\* a second call that timed out after a first one that copied a frame
C14_Witness ==
    /\ gpuPc = "idle" /\ ngrabs = 2 /\ hr = "DXGI_ERROR_WAIT_TIMEOUT"
    /\ gpuRet = "buf" /\ prevRet \in Screens /\ buffer = prevRet

\* C20: capture_grab returns with no frame held and nothing mapped; it has
\* called ReleaseFrame once if AcquireNextFrame succeeded, on the success
\* path as on the two failure paths, and not at all otherwise; ReleaseFrame
\* is only called on a held frame, after the Unmap of a successful Map.
C20_AcquireReleasePaired ==
    /\ [](gpuPc = "idle" =>
            ~held /\ ~mapped /\ releases = acquires /\ acquires <= 1)
    /\ [](gpuPc = "idle" /\ ngrabs > 0 =>
            acquires = IF hr \in {"DXGI_ERROR_WAIT_TIMEOUT",
                                  "DXGI_ERROR_ACCESS_LOST"}
                          \/ (hr = "E_FAIL" /\ releases = 0)
                       THEN 0 ELSE 1)
    /\ [](mapped => held)
    /\ [][gpuPc # "idle" /\ releases' # releases =>
             /\ held /\ ~held' /\ ~mapped'
             /\ releases' = releases + 1
             /\ gpuPc' = "idle"]_vars

\* a call that acquired a frame, failed after that and released the frame
C20_Witness ==
    /\ gpuPc = "idle" /\ hr = "E_FAIL" /\ gpuRet = "NULL"
    /\ acquires = 1 /\ releases = 1 /\ ~held /\ ngrabs = 2

----------------------------------------------------------------------------
(* Properties of capture_init and capture_free in the desktop-duplication  *)
(* variant *)

\* how often handle x occurs in a log
LogCount(log, x) == Cardinality({i \in DOMAIN log : log[i] = x})

\* the entries of a log that lie in set S, in order
Filter(log, S) == SelectSeq(log, LAMBDA x : x \in S)

Reverse(s) == [i \in 1..Len(s) |-> s[Len(s) + 1 - i]]

\* C21: capture_init obtains no handle twice and releases no handle it
\* does not hold; when it has returned NULL every handle it obtained has
\* been released once; it returns the context only when no step failed,
\* with all six handles held.
C21_FailureReleasesAll ==
    /\ \A x \in Handles :
          /\ LogCount(acquired, x) <= 1
          /\ LogCount(freed, x) <= LogCount(acquired, x)
    /\ initRet = "NULL" =>
          /\ initPc = "returned"
          /\ \A x \in Handles : LogCount(freed, x) = LogCount(acquired, x)
    /\ freeFrom = "init" => initRet # "ctx"
    /\ initPc = "returned" => initRet = "NULL"
    /\ initPc = "ready" =>
          /\ initRet = "ctx" /\ ~Failed(initHr)
          /\ \A x \in CtxHandles :
                ctx[x] = 1 /\ LogCount(acquired, x) = 1 /\ LogCount(freed, x) = 0
          /\ LogCount(acquired, "ctx") = 1 /\ LogCount(freed, "ctx") = 0

\* capture_init returned NULL because the malloc of the buffer failed
C21_Witness ==
    /\ initPc = "returned" /\ initRet = "NULL" /\ ctx.buffer = 0
    /\ freed = <<"dxgi_device", "adapter", "output", "output1", "staging",
                 "duplication", "context", "device", "ctx">>

\* the COM objects a session owns
ComObjects == {"device", "context", "duplication", "staging"}

\* C22 as amended: capture_free releases the COM objects of the session
\* in the reverse of the order capture_init obtained them (staging texture,
\* duplication, context, device) and after them the CPU buffer, then the
\* context struct.
C22_ComReverseThenBuffer ==
    /\ initPc \in {"closed", "returned"} =>
          Filter(freed, ComObjects) = Reverse(Filter(acquired, ComObjects))
    /\ initPc = "closed" =>
          Filter(freed, CtxHandles \cup {"ctx"}) =
             Filter(freed, ComObjects) \o <<"buffer", "ctx">>

\* C22 as stated: capture_free releases device, context, duplication,
\* staging texture and CPU buffer in the exact reverse of their acquisition.
C22_ExactReverse ==
    initPc = "closed" =>
       Filter(freed, CtxHandles) = Reverse(Filter(acquired, CtxHandles))

\* main has freed a session that capture_init had set up in full
C22_Witness ==
    /\ initPc = "closed" /\ freeFrom = "main"
    /\ Filter(acquired, CtxHandles) =
          <<"device", "context", "duplication", "staging", "buffer">>
    /\ Len(Filter(freed, CtxHandles)) = 5

----------------------------------------------------------------------------
(* Properties of the X11 capture_init *)

\* C24: a session that capture_init returned with use_shm = 0 holds no
\* resource of the fast path; one returned with use_shm = 1 has its
\* segment mapped and attached; and no capture_grab asks the server to
\* fill a buffer that is not mapped or not attached.
C24_FastPathValid ==
    /\ x11Pc = "ready" /\ xgrabs = 0 /\ xctx.use_shm = 0 =>
          xheld \cap FastPath = {}
    /\ x11Pc = "ready" /\ xctx.use_shm = 1 =>
          {"img", "seg", "map", "attach"} \subseteq xheld
    /\ xGrabRet \notin {"badptr", "xerror"}

\* shmat failed in capture_init, which returned a session with
\* use_shm = 1, and the first capture_grab handed out (void *)-1
C24_UnmappedGrab ==
    /\ x11Pc = "ready" /\ xctx.use_shm = 1 /\ xctx.shmaddr = -1
    /\ "map" \notin xheld /\ xgrabs = 1 /\ xGrabRet = "badptr"

\* the three failures capture_init tests for end on the slow path with
\* nothing of the fast path held
C24_CheckedFallback ==
    /\ x11Pc = "ready" /\ xctx.use_shm = 0 /\ xctx.shmid = -1
    /\ xheld = {"ctx", "dpy"}

----------------------------------------------------------------------------
(* Properties of the converter *)

\* the red, green and blue bytes of input pixel (i, j)
SrcR(i, j) == src[(j * convW + i) * 4 + 2]

SrcG(i, j) == src[(j * convW + i) * 4 + 1]

SrcB(i, j) == src[(j * convW + i) * 4]

EvenDims == convW % 2 = 0 /\ convH % 2 = 0

\* the reference formulas of BT.601, the shift rounding down
RefY(R, G, B) == Clamp8(((66 * R + 129 * G + 25 * B + 128) \div 256) + 16)

RefU(R, G, B) ==
    Clamp8((((0 - 38) * R - 74 * G + 112 * B + 128) \div 256) + 128)

RefV(R, G, B) == Clamp8(((112 * R - 94 * G - 18 * B + 128) \div 256) + 128)

\* the bytes of the frame for even dimensions
FrameBytes == convW * convH + 2 * (convW \div 2) * (convH \div 2)

\* C15: for even width and height the finished output holds, for every
\* pixel (i, j), the reference luma of that pixel, and for every chroma
\* cell (ci, cj) the reference U and V of pixel (2ci, 2cj) alone, whatever
\* the alpha bytes and the other three pixels of the block are.
C15_ReferenceConversion ==
    convPc = "done" /\ EvenDims =>
       /\ \A i \in 0..(convW - 1), j \in 0..(convH - 1) :
             dst[j * convW + i] = RefY(SrcR(i, j), SrcG(i, j), SrcB(i, j))
       /\ \A ci \in 0..(convW \div 2 - 1), cj \in 0..(convH \div 2 - 1) :
             /\ dst[convW * convH + cj * (convW \div 2) + ci]
                  = RefU(SrcR(2 * ci, 2 * cj), SrcG(2 * ci, 2 * cj),
                         SrcB(2 * ci, 2 * cj))
             /\ dst[convW * convH + (convW \div 2) * (convH \div 2)
                      + cj * (convW \div 2) + ci]
                  = RefV(SrcR(2 * ci, 2 * cj), SrcG(2 * ci, 2 * cj),
                         SrcB(2 * ci, 2 * cj))

\* a converted 4 x 2 image whose second block has a blue top-left pixel
\* above a red one with alpha 0: the chroma of the block is that of blue
C15_Witness ==
    /\ convPc = "done" /\ convW = 4 /\ convH = 2
    /\ SrcB(2, 0) = 255 /\ SrcR(2, 0) = 0
    /\ SrcR(2, 1) = 255 /\ src[(1 * convW + 2) * 4 + 3] = 0
    /\ dst[convW * convH + 1] = 240
    /\ dst[convW * convH + 2 + 1] = 110

\* C16 as claimed: every byte written lies in 0..255, white converts to
\* Y = 255, U = 128, V = 128 and black to Y = 16, U = 128, V = 128.
C16_WhiteIs255 ==
    convPc = "done" /\ EvenDims =>
       /\ \A k \in 0..(FrameBytes - 1) : dst[k] \in 0..255
       /\ (SrcR(0, 0) = 255 /\ SrcG(0, 0) = 255 /\ SrcB(0, 0) = 255 =>
              /\ dst[0] = 255
              /\ dst[convW * convH] = 128
              /\ dst[convW * convH + (convW \div 2) * (convH \div 2)] = 128)
       /\ (SrcR(0, 0) = 0 /\ SrcG(0, 0) = 0 /\ SrcB(0, 0) = 0 =>
              /\ dst[0] = 16
              /\ dst[convW * convH] = 128
              /\ dst[convW * convH + (convW \div 2) * (convH \div 2)] = 128)

\* C16 as amended: every byte written lies in 0..255 (luma in 16..235,
\* chroma in 16..240), white converts to Y = 235, U = 128, V = 128 and
\* black to Y = 16, U = 128, V = 128.
C16_WhiteIs235 ==
    convPc = "done" /\ EvenDims =>
       /\ \A k \in 0..(FrameBytes - 1) : dst[k] \in 0..255
       /\ \A k \in 0..(convW * convH - 1) : dst[k] \in 16..235
       /\ \A k \in (convW * convH)..(FrameBytes - 1) : dst[k] \in 16..240
       /\ \A i \in 0..(convW - 1), j \in 0..(convH - 1) :
             /\ (SrcR(i, j) = 255 /\ SrcG(i, j) = 255 /\ SrcB(i, j) = 255 =>
                    dst[j * convW + i] = 235)
             /\ (SrcR(i, j) = 0 /\ SrcG(i, j) = 0 /\ SrcB(i, j) = 0 =>
                    dst[j * convW + i] = 16)
       /\ (SrcR(0, 0) = SrcG(0, 0) /\ SrcG(0, 0) = SrcB(0, 0)
             /\ SrcR(0, 0) \in {0, 255} =>
              /\ dst[convW * convH] = 128
              /\ dst[convW * convH + (convW \div 2) * (convH \div 2)] = 128)

\* a converted 2 x 2 image with a white first pixel and a black second one
C16_Witness ==
    /\ convPc = "done" /\ convW = 2 /\ convH = 2
    /\ SrcR(0, 0) = 255 /\ SrcG(0, 0) = 255 /\ SrcB(0, 0) = 255
    /\ SrcR(1, 0) = 0 /\ SrcG(1, 0) = 0 /\ SrcB(1, 0) = 0
    /\ dst[0] = 235 /\ dst[1] = 16 /\ dst[4] = 128 /\ dst[5] = 128

\* C17: for even width and height the converter never writes an index
\* twice nor one at or beyond width * height + 2 * (width / 2) * (height / 2),
\* and when it returns it has written each index below that once: luma
\* first, U from width * height, V after the U plane.  The size is the
\* width * height * 3 / 2 that main allocates and passes to vcam_write.
C17_EachByteOnce ==
    EvenDims =>
       /\ FrameBytes = YuvSize(convW, convH)
       /\ \A k \in DOMAIN wcount :
             /\ wcount[k] <= 1
             /\ (k >= FrameBytes => wcount[k] = 0)
             /\ (convPc = "done" /\ k < FrameBytes => wcount[k] = 1)
       /\ \A k \in DOMAIN wcount :
             wcount[k] = 1 /\ k >= convW * convH =>
                \E ci \in 0..(convW \div 2 - 1), cj \in 0..(convH \div 2 - 1) :
                   /\ convJ > 2 * cj \/ (convJ = 2 * cj /\ convI > 2 * ci)
                        \/ convPc = "done"
                   /\ \/ k = convW * convH + cj * (convW \div 2) + ci
                      \/ k = convW * convH + (convW \div 2) * (convH \div 2)
                               + cj * (convW \div 2) + ci

\* a converted 2 x 4 image: eight luma bytes, two U bytes, two V bytes
C17_Witness ==
    /\ convPc = "done" /\ convW = 2 /\ convH = 4
    /\ \A k \in 0..11 : wcount[k] = 1
    /\ wcount[12] = 0

\* C18: every bgra_to_yuv420p call of main has an even width and an even
\* height.
C18_EvenDimsAtConvert ==
    pc = "convert" => w % 2 = 0 /\ h % 2 = 0

\* with an odd width the second U byte of a row lands on the V plane
C18_PlanesOverlap ==
    /\ convPc = "done" /\ convW = 3 /\ convH = 2
    /\ wcount[VPlane(convW, convH)] = 2

C27_FirstGrabTimeout ==
    /\ gpuPc = "idle" /\ ngrabs = 1 /\ hr = "DXGI_ERROR_WAIT_TIMEOUT"
    /\ gpuRet = "buf" /\ buffer = 0

----------------------------------------------------------------------------
(* Properties of the shared-memory protocol.  The words of the frame of    *)
(* delivery number k all hold k; the zeroed region counts as frame 0.      *)

FrameSeq == shm[FrameSeqOff]

Data(i) == shm[ShmFramePtr + i]

PixelIdx == 0..(ShmPixels - 1)

\* C2 as claimed: when both counter reads of a consumer return the same
\* value, the words it read in between all belong to one frame.
C2_EqualCounterOneFrame ==
    \A c \in Consumers :
       cons[c].verdict = "kept" =>
          \A i, j \in PixelIdx : cons[c].buf[i] = cons[c].buf[j]

\* C2 as amended: when both counter reads return the same value n, no
\* delivery completed between them, and every word read belongs to frame n
\* or to frame n + 1, the one whose copy was under way and is unpublished.
C2_EqualCounterTwoFrames ==
    /\ [](\A c \in Consumers :
            cons[c].verdict = "kept" =>
               \A i \in PixelIdx :
                  cons[c].buf[i] \in {cons[c].seq1, cons[c].seq1 + 1})
    /\ [][\A c \in Consumers :
             cons[c].pc = "check" /\ cons'[c].verdict = "kept" =>
                delivered = cons[c].del1]_vars

\* a consumer kept a frame that mixes frame 1 with the frame 2 being copied
C2_Witness ==
    \E c \in Consumers :
       /\ cons[c].verdict = "kept" /\ cons[c].seq1 = 1
       /\ cons[c].buf[0] = 2 /\ cons[c].buf[ShmPixels - 1] = 1

\* C3: frame_seq changes only when the data area holds every word of the
\* frame being delivered, and that step leaves the data area alone; so
\* with no delivery in progress the data area is exactly frame number
\* frame_seq.
C3_WriteBeforePublish ==
    /\ [][prod.pc # "closed" /\ shm'[FrameSeqOff] # shm[FrameSeqOff] =>
             /\ prod.pc = "publish"
             /\ \A i \in PixelIdx :
                   /\ shm[ShmFramePtr + i] = prod.tag
                   /\ shm'[ShmFramePtr + i] = shm[ShmFramePtr + i]]_vars
    /\ [](prod.pc = "idle" => \A i \in PixelIdx : Data(i) = FrameSeq)

\* the region at rest after the second delivery
C3_Witness ==
    /\ prod.pc = "idle" /\ delivered = 2
    /\ FrameSeq = 2 /\ \A i \in PixelIdx : Data(i) = 2

\* C4: every step leaves frame_seq alone or adds exactly 1 to it; it adds 1
\* exactly when a delivery completes, which is a step of the producer and
\* never a rejected delivery or a consumer step; so a consumer whose poll
\* returns the value of its previous poll is right that no delivery
\* completed in between.
C4_SeqCountsDeliveries ==
    /\ [][prod.pc # "closed" =>
             /\ shm'[FrameSeqOff] \in {shm[FrameSeqOff], shm[FrameSeqOff] + 1}
             /\ (shm'[FrameSeqOff] = shm[FrameSeqOff] + 1
                    <=> delivered' = delivered + 1)
             /\ (shm'[FrameSeqOff] # shm[FrameSeqOff] =>
                    prod.pc = "publish" /\ prod'.res = 0 /\ cons' = cons)
             /\ (prod'.res = -1 => shm'[FrameSeqOff] = shm[FrameSeqOff])]_vars
    /\ [](prod.pc # "closed" => FrameSeq = delivered)
    /\ [][\A c \in Consumers :
             (/\ cons[c].pc = "idle" /\ cons'[c] # cons[c]
              /\ cons[c].seq1 # -1 /\ cons'[c].seq1 = cons[c].seq1)
             => delivered = cons[c].del1]_vars

\* after one delivery and a later rejected one, a consumer that has kept
\* frame 1 polls and finds the counter where it was
C4_Witness ==
    /\ delivered = 1 /\ prod.pc = "idle" /\ prod.res = -1
    /\ \E c \in Consumers :
          /\ cons[c].pc = "idle" /\ cons[c].verdict = "none"
          /\ cons[c].last_seen = 1 /\ cons[c].seq1 = 1

====
